---- MODULE Spec2Model ----
(***************************************************************************)
(* Model of the metrics engine of jules_app: ActivityAnalyzer              *)
(* (jules_app/analyzer.py) and FitFileParser._calculate_normalized_power   *)
(* (jules_app/parser.py).                                                  *)
(*                                                                         *)
(* Numbers.  Python/numpy floats are modelled by exact reals of the form   *)
(*      (n/d) * (rn/rd)^(1/k),   k \in {1, 2, 4}                           *)
(* held as records [t |-> "num", n, d, k, rn, rd].  A rational has k = 1   *)
(* and rn = rd = 1.  Rounding of binary floating point is not modelled.    *)
(* The other values a metric can take are None, NaN, +inf and the          *)
(* exceptions a Python operator raises.                                    *)
(***************************************************************************)
EXTENDS Integers, Sequences, FiniteSets, TLC

VARIABLES
    activity_data,  \* input of analyze_activity: session_info and records_df
    analysis,       \* the report analyze_activity is building (its local dict)
    pc,             \* position inside analyze_activity
    exc,            \* exception that escaped analyze_activity, or "none"
    args,           \* arguments of a direct call of a helper method
    call,           \* the helper method called directly, or "none"
    ret             \* what that call returned

vars == <<activity_data, analysis, pc, exc, args, call, ret>>

(***************************************************************************)
(* Values                                                                  *)
(***************************************************************************)
None == [t |-> "None"]
NaN == [t |-> "nan"]
Inf == [t |-> "inf"]
TypeError == [t |-> "exc", e |-> "TypeError"]
ZeroDivisionError == [t |-> "exc", e |-> "ZeroDivisionError"]

IsNum(x) == x.t = "num"
IsExc(x) == x.t = "exc"

Abs(i) == IF i < 0 THEN -i ELSE i

RECURSIVE GCD(_, _)
GCD(a, b) == IF b = 0 THEN a ELSE GCD(b, a % b)

\* the rational n/d (d # 0) in lowest terms
Rat(n, d) ==
    LET g == GCD(Abs(n), Abs(d))
        s == IF d < 0 THEN -1 ELSE 1
    IN  [t |-> "num", n |-> (s * n) \div g, d |-> (s * d) \div g,
         k |-> 1, rn |-> 1, rd |-> 1]

Int2Num(i) == Rat(i, 1)
Zero == Rat(0, 1)
IsRat(x) == IsNum(x) /\ x.k = 1
IsZero(x) == IsNum(x) /\ (x.n = 0 \/ x.rn = 0)

\* a + b for rationals, over the least common denominator
Add(a, b) ==
    LET l == (a.d \div GCD(a.d, b.d)) * b.d
    IN  Rat(a.n * (l \div a.d) + b.n * (l \div b.d), l)

Neg(a) == [a EXCEPT !.n = -a.n]
Sub(a, b) == Add(a, Neg(b))

\* a * b, where at most one of the two carries a root
Mul(a, b) ==
    LET g1 == GCD(Abs(a.n), b.d)
        g2 == GCD(Abs(b.n), a.d)
        c == Rat((a.n \div g1) * (b.n \div g2), (a.d \div g2) * (b.d \div g1))
        r == IF a.k = 1 THEN b ELSE a
    IN  IF c.n = 0 \/ r.rn = 0 THEN Zero
        ELSE [c EXCEPT !.k = r.k, !.rn = r.rn, !.rd = r.rd]

\* Python's a < b, a <= b for rationals
Lt(a, b) == a.n * b.d < b.n * a.d
Le(a, b) == a.n * b.d <= b.n * a.d
Positive(a) == IsNum(a) /\ a.n > 0 /\ a.rn > 0

\* Python's float division a / b: None on either side is a TypeError, a zero
\* divisor is a ZeroDivisionError
TrueDiv(a, b) ==
    IF a = None \/ b = None THEN TypeError
    ELSE IF IsZero(b) THEN ZeroDivisionError
    ELSE Mul(a, Rat(b.d, b.n))

Pow2(a) == Mul(a, a)
Pow4(a) == Pow2(Pow2(a))

\* the integer fourth root of m when m = r^4 for some r (r^4 < 2^31 bounds r by 215)
IsPow4(m) == \E r \in 0..215 : r * r * r * r = m
IRoot4(m) == CHOOSE r \in 0..215 : r * r * r * r = m

\* a ** 0.25 for a rational a >= 0
Root4(a) ==
    IF a.n = 0 THEN Zero
    ELSE IF IsPow4(a.n) /\ IsPow4(a.d) THEN Rat(IRoot4(a.n), IRoot4(a.d))
    ELSE [t |-> "num", n |-> 1, d |-> 1, k |-> 4, rn |-> a.n, rd |-> a.d]

\* x ** 2 for a value that may carry a fourth root
Square(x) ==
    IF x.k = 1 THEN Pow2(x)
    ELSE LET c == Pow2(Rat(x.n, x.d))
         IN  [c EXCEPT !.k = 2, !.rn = x.rn, !.rd = x.rd]

\* the fourth power of a value n/d * (rn/rd)^(1/4), as a rational
FourthPower(x) ==
    IF x.k = 1 THEN Pow4(x) ELSE Mul(Pow4(Rat(x.n, x.d)), Rat(x.rn, x.rd))

(***************************************************************************)
(* pandas Series: a sequence of numbers; a DataFrame column may hold NaN   *)
(***************************************************************************)
Series(ints) == [i \in 1..Len(ints) |-> Int2Num(ints[i])]

IsPresent(x) == x # NaN
dropna(col) == SelectSeq(col, IsPresent)

RECURSIVE SumFrom(_, _, _)
\* s[lo] + ... + s[hi], summed by halves
SumFrom(s, lo, hi) ==
    IF lo > hi THEN Zero
    ELSE IF lo = hi THEN s[lo]
    ELSE LET mid == (lo + hi) \div 2
         IN  Add(SumFrom(s, lo, mid), SumFrom(s, mid + 1, hi))

\* Series.mean(): NaN entries are skipped; NaN when nothing is left
mean(s) ==
    LET v == dropna(s)
    IN  IF Len(v) = 0 THEN NaN ELSE TrueDiv(SumFrom(v, 1, Len(v)), Int2Num(Len(v)))

MinI(a, b) == IF a < b THEN a ELSE b
MaxI(a, b) == IF a > b THEN a ELSE b

(***************************************************************************)
(* Normalized Power, Intensity Factor, Training Stress Score               *)
(***************************************************************************)
Window == 30
MinPowerSamples == 30

\* faulty variant: a shorter window at the edges is averaged as well, its missing
\* samples taken as zero
rolling_mean_partial(s, w) ==
    LET off == (w - 1) \div 2
        n == Len(s)
    IN  [i \in 1..n |->
            LET start == MaxI(i + off - w + 1, 1)
                end == MinI(i + off, n)
            IN  IF end < start THEN NaN
                ELSE TrueDiv(SumFrom(s, start, end), Int2Num(w))]

\* Series.rolling(window=w, center=True).mean(): entry i averages the w entries
\* i - w + 1 + off .. i + off with off = (w - 1) // 2; where the series does not
\* hold all w of them the entry is NaN (min_periods defaults to the window)
rolling_mean(s, w) ==
    LET off == (w - 1) \div 2
        n == Len(s)
    IN  [i \in 1..n |->
            LET start == MaxI(i + off - w + 1, 1)
                end == MinI(i + off, n)
            IN  IF end - start + 1 < w THEN NaN
                ELSE TrueDiv(SumFrom(s, start, end), Int2Num(w))]

\* faulty variant: positions without a full window count as zero
fourth_power_fillna(rolling_avg) ==
    [i \in 1..Len(rolling_avg) |->
        IF rolling_avg[i] = NaN THEN Zero ELSE Pow4(rolling_avg[i])]

\* rolling_avg ** 4, elementwise; NaN stays NaN
fourth_power(rolling_avg) ==
    [i \in 1..Len(rolling_avg) |->
        IF rolling_avg[i] = NaN THEN NaN ELSE Pow4(rolling_avg[i])]

\* faulty variant: exactly 30 samples are still too few
calculate_normalized_power_le(power_data) ==
    IF Len(power_data) <= MinPowerSamples THEN None
    ELSE LET rolling_avg == rolling_mean(power_data, Window)
             m == mean(fourth_power(rolling_avg))
         IN  IF m = NaN THEN NaN ELSE Root4(m)

\* ActivityAnalyzer._calculate_normalized_power
calculate_normalized_power(power_data) ==
    IF Len(power_data) < MinPowerSamples THEN None
    ELSE LET rolling_avg == rolling_mean(power_data, Window)
             m == mean(fourth_power(rolling_avg))
         IN  IF m = NaN THEN NaN ELSE Root4(m)

\* FitFileParser._calculate_normalized_power
parser_calculate_normalized_power(power_data) ==
    IF Len(power_data) < MinPowerSamples THEN None
    ELSE LET rolling_avg == rolling_mean(power_data, Window)
             m == mean(fourth_power(rolling_avg))
         IN  IF m = NaN THEN NaN ELSE Root4(m)

\* faulty variant: only a negative FTP is rejected
calculate_intensity_factor_lt(normalized_power, ftp) ==
    IF normalized_power = None \/ ftp < 0 THEN None
    ELSE TrueDiv(normalized_power, Int2Num(ftp))

\* ActivityAnalyzer._calculate_intensity_factor
calculate_intensity_factor(normalized_power, ftp) ==
    IF normalized_power = None \/ ftp <= 0 THEN None
    ELSE TrueDiv(normalized_power, Int2Num(ftp))

\* ActivityAnalyzer._calculate_tss
calculate_tss(normalized_power, intensity_factor, duration_hours) ==
    IF intensity_factor = None \/ ~Positive(duration_hours) THEN None
    ELSE Mul(Mul(duration_hours, Square(intensity_factor)), Int2Num(100))

(***************************************************************************)
(* Zones                                                                   *)
(***************************************************************************)
\* f * x for a float literal f = pct/100 and an int x
Fraction(pct, x) == Mul(Rat(pct, 100), Int2Num(x))

\* hr_data >= lo, hr_data <= hi; hi may be float('inf')
Ge(v, lo) == Le(lo, v)
LeBound(v, hi) == IF hi = Inf THEN TRUE ELSE Le(v, hi)

\* faulty variant: the lower bound is exclusive
in_zone_open_below(data, lo, hi) ==
    Cardinality({i \in 1..Len(data) : Lt(lo, data[i]) /\ LeBound(data[i], hi)})

\* faulty variant: the upper bound is exclusive
in_zone_open_above(data, lo, hi) ==
    Cardinality({i \in 1..Len(data) : Ge(data[i], lo) /\ (hi = Inf \/ Lt(data[i], hi))})

\* len(data[(data >= lo) & (data <= hi)])
in_zone(data, lo, hi) ==
    Cardinality({i \in 1..Len(data) : Ge(data[i], lo) /\ LeBound(data[i], hi)})

\* the zones dict of _calculate_hr_zones, in insertion order
hr_zones_table(max_hr) ==
    << [name |-> "Zone 1 (50-60%)", lo |-> Fraction(50, max_hr), hi |-> Fraction(60, max_hr)],
       [name |-> "Zone 2 (60-70%)", lo |-> Fraction(60, max_hr), hi |-> Fraction(70, max_hr)],
       [name |-> "Zone 3 (70-80%)", lo |-> Fraction(70, max_hr), hi |-> Fraction(80, max_hr)],
       [name |-> "Zone 4 (80-90%)", lo |-> Fraction(80, max_hr), hi |-> Fraction(90, max_hr)],
       [name |-> "Zone 5 (90-100%)", lo |-> Fraction(90, max_hr), hi |-> Int2Num(max_hr)] >>

\* faulty variant: Zone 3 starts where Zone 2 ends plus one percent
power_zones_table_gap(ftp) ==
    << [name |-> "Zone 1 (0-55%)", lo |-> Zero, hi |-> Fraction(55, ftp)],
       [name |-> "Zone 2 (55-75%)", lo |-> Fraction(55, ftp), hi |-> Fraction(75, ftp)],
       [name |-> "Zone 3 (75-90%)", lo |-> Fraction(76, ftp), hi |-> Fraction(90, ftp)],
       [name |-> "Zone 4 (90-105%)", lo |-> Fraction(91, ftp), hi |-> Fraction(105, ftp)],
       [name |-> "Zone 5 (105-120%)", lo |-> Fraction(106, ftp), hi |-> Fraction(120, ftp)],
       [name |-> "Zone 6 (120%+)", lo |-> Fraction(121, ftp), hi |-> Inf] >>

\* the zones dict of _calculate_power_zones, in insertion order
power_zones_table(ftp) ==
    << [name |-> "Zone 1 (0-55%)", lo |-> Zero, hi |-> Fraction(55, ftp)],
       [name |-> "Zone 2 (55-75%)", lo |-> Fraction(55, ftp), hi |-> Fraction(75, ftp)],
       [name |-> "Zone 3 (75-90%)", lo |-> Fraction(75, ftp), hi |-> Fraction(90, ftp)],
       [name |-> "Zone 4 (90-105%)", lo |-> Fraction(90, ftp), hi |-> Fraction(105, ftp)],
       [name |-> "Zone 5 (105-120%)", lo |-> Fraction(105, ftp), hi |-> Fraction(120, ftp)],
       [name |-> "Zone 6 (120%+)", lo |-> Fraction(120, ftp), hi |-> Inf] >>

\* the loop shared by both zone methods: one percentage per zone
zone_times(data, zones) ==
    LET total_records == Len(data)
        row(nm) == CHOOSE i \in 1..Len(zones) : zones[i].name = nm
    IN  [nm \in {zones[i].name : i \in 1..Len(zones)} |->
            IF total_records > 0
            THEN Mul(TrueDiv(Int2Num(in_zone(data, zones[row(nm)].lo, zones[row(nm)].hi)),
                             Int2Num(total_records)),
                     Int2Num(100))
            ELSE Zero]

\* ActivityAnalyzer._calculate_hr_zones
calculate_hr_zones(hr_data, max_hr) == zone_times(hr_data, hr_zones_table(max_hr))

\* ActivityAnalyzer._calculate_power_zones
calculate_power_zones(power_data, ftp) == zone_times(power_data, power_zones_table(ftp))

(***************************************************************************)
(* Python dicts and numpy statistics                                       *)
(***************************************************************************)
Str(s) == [t |-> "str", s |-> s]
\* a Python list
List(items) == [t |-> "list", items |-> items]
EmptyDict == <<>>

\* faulty variant: the stored value is never used
get_default_only(d, key, default) == default

\* d.get(key, default)
Get(d, key, default) == IF key \in DOMAIN d THEN d[key] ELSE default
\* d[key] = value
Put(d, key, value) == (key :> value) @@ d
\* truth value of a number: zero is false
Truthy(x) == IsNum(x) /\ ~IsZero(x)

RECURSIVE ISqrtIn(_, _, _)
\* the largest r in lo..hi with r * r <= m, by bisection (hi < 46341)
ISqrtIn(m, lo, hi) ==
    IF lo >= hi THEN lo
    ELSE LET mid == (lo + hi + 1) \div 2
         IN  IF mid * mid <= m THEN ISqrtIn(m, mid, hi) ELSE ISqrtIn(m, lo, mid - 1)

ISqrt(m) == ISqrtIn(m, 0, 46340)
IsSquare(m) == ISqrt(m) * ISqrt(m) = m

\* a ** 0.5 for a rational a >= 0
Sqrt(a) ==
    IF a.n = 0 THEN Zero
    ELSE IF IsSquare(a.n) /\ IsSquare(a.d) THEN Rat(ISqrt(a.n), ISqrt(a.d))
    ELSE [t |-> "num", n |-> 1, d |-> 1, k |-> 2, rn |-> a.n, rd |-> a.d]

\* numpy's a / b on float64: nothing raises; x/0 is inf (x > 0) or nan (x = 0)
NpTrueDiv(a, b) ==
    IF a = NaN \/ b = NaN THEN NaN
    ELSE IF a = Inf THEN (IF b = Inf THEN NaN ELSE Inf)
    ELSE IF b = Inf THEN Zero
    ELSE IF IsZero(b) THEN (IF IsZero(a) THEN NaN ELSE Inf)
    ELSE Mul(a, Rat(b.d, b.n))

\* numpy's a * b for a >= 0 and a finite b > 0
NpMul(a, b) == IF a = NaN \/ a = Inf THEN a ELSE Mul(a, b)

HasInf(s) == \E i \in 1..Len(s) : s[i] = Inf
IsFinite(x) == x # Inf
finite(s) == SelectSeq(s, IsFinite)

\* Series.mean() of a series without NaN that may hold +inf
np_mean(s) == IF HasInf(s) THEN Inf ELSE mean(s)

\* Series.min(), Series.max() of a non-empty series without NaN
np_min(s) ==
    LET f == finite(s)
    IN  IF Len(f) = 0 THEN Inf
        ELSE CHOOSE x \in {f[i] : i \in 1..Len(f)} : \A j \in 1..Len(f) : Le(x, f[j])
np_max(s) ==
    IF HasInf(s) THEN Inf
    ELSE CHOOSE x \in {s[i] : i \in 1..Len(s)} : \A j \in 1..Len(s) : Le(s[j], x)

\* Series.std(): the sample standard deviation (ddof = 1); NaN for fewer than
\* two values or when a value is infinite
np_std(s) ==
    IF Len(s) < 2 \/ HasInf(s) THEN NaN
    ELSE LET m == mean(s)
             sq == [i \in 1..Len(s) |-> Pow2(Sub(s[i], m))]
         IN  Sqrt(Mul(SumFrom(sq, 1, Len(s)), Rat(1, Len(s) - 1)))

(***************************************************************************)
(* Comparing a value that carries a root with a constant.  The products    *)
(* involved exceed 32 bits, so they are formed on naturals held as         *)
(* sequences of base-10000 digits, least significant first.                *)
(***************************************************************************)
RECURSIVE BigOf(_)
BigOf(i) == IF i < 10000 THEN <<i>> ELSE <<i % 10000>> \o BigOf(i \div 10000)

RECURSIVE BigAdd(_, _, _)
BigAdd(a, b, carry) ==
    IF Len(a) = 0 /\ Len(b) = 0 THEN (IF carry = 0 THEN <<>> ELSE <<carry>>)
    ELSE LET x == IF Len(a) = 0 THEN 0 ELSE Head(a)
             y == IF Len(b) = 0 THEN 0 ELSE Head(b)
             t == x + y + carry
         IN  <<t % 10000>> \o BigAdd(IF Len(a) = 0 THEN a ELSE Tail(a),
                                     IF Len(b) = 0 THEN b ELSE Tail(b), t \div 10000)

RECURSIVE BigMulDigit(_, _, _)
BigMulDigit(a, m, carry) ==
    IF Len(a) = 0 THEN (IF carry = 0 THEN <<>> ELSE <<carry>>)
    ELSE LET t == Head(a) * m + carry
         IN  <<t % 10000>> \o BigMulDigit(Tail(a), m, t \div 10000)

RECURSIVE BigMul(_, _)
BigMul(a, b) ==
    IF Len(b) = 0 THEN <<>>
    ELSE BigAdd(BigMulDigit(a, Head(b), 0), <<0>> \o BigMul(a, Tail(b)), 0)

RECURSIVE BigTrim(_)
\* without leading zero digits
BigTrim(a) == IF Len(a) > 0 /\ a[Len(a)] = 0 THEN BigTrim(SubSeq(a, 1, Len(a) - 1)) ELSE a

RECURSIVE BigProd(_)
\* the product of a sequence of naturals
BigProd(ints) == IF Len(ints) = 0 THEN <<1>> ELSE BigMul(BigOf(Head(ints)), BigProd(Tail(ints)))

RECURSIVE BigLtTrimmed(_, _)
BigLtTrimmed(a, b) ==
    IF Len(a) # Len(b) THEN Len(a) < Len(b)
    ELSE IF Len(a) = 0 THEN FALSE
    ELSE IF a[Len(a)] # b[Len(b)] THEN a[Len(a)] < b[Len(b)]
    ELSE BigLtTrimmed(SubSeq(a, 1, Len(a) - 1), SubSeq(b, 1, Len(b) - 1))

BigLt(a, b) == BigLtTrimmed(BigTrim(a), BigTrim(b))

Copies(i, k) == [j \in 1..k |-> i]

\* x < c and x > c for a float x (a number >= 0 when it carries a root, NaN or
\* +inf) and a constant c > 0: every comparison with NaN is False
LessThan(x, c) ==
    IF x = NaN \/ x = Inf THEN FALSE
    ELSE IF x.k = 1 THEN Lt(x, c)
    ELSE BigLt(BigProd(Copies(x.n, x.k) \o <<x.rn>> \o Copies(c.d, x.k)),
               BigProd(Copies(c.n, x.k) \o <<x.rd>> \o Copies(x.d, x.k)))
GreaterThan(x, c) ==
    IF x = NaN THEN FALSE
    ELSE IF x = Inf THEN TRUE
    ELSE IF x.k = 1 THEN Lt(c, x)
    ELSE BigLt(BigProd(Copies(c.n, x.k) \o <<x.rd>> \o Copies(x.d, x.k)),
               BigProd(Copies(x.n, x.k) \o <<x.rn>> \o Copies(c.d, x.k)))

(***************************************************************************)
(* The analysis methods of ActivityAnalyzer                                *)
(***************************************************************************)
DefaultMaxHr == 190
DefaultFtp == 250
MinDriftSamples == 10

\* faulty variant: minutes and seconds below 10 keep a single digit
Pad2_unpadded(i) == ToString(i)

Pad2(i) == IF i < 10 THEN "0" \o ToString(i) ELSE ToString(i)

\* ActivityAnalyzer._format_duration, for a duration >= 0
format_duration(seconds) ==
    IF ~Truthy(seconds) THEN "0:00:00"
    ELSE LET whole == seconds.n \div seconds.d
             hours == whole \div 3600
             minutes == (whole % 3600) \div 60
             secs == whole % 60
         IN  ToString(hours) \o ":" \o Pad2(minutes) \o ":" \o Pad2(secs)

\* faulty variant: the divisors are used without their guards
analyze_basic_metrics_unguarded(session, records_df) ==
    LET total_time == Get(session, "total_elapsed_time", Zero)
        moving_time == Get(session, "total_timer_time", Zero)
        total_distance_km == TrueDiv(Get(session, "total_distance", Zero), Int2Num(1000))
        total_ascent_m == Get(session, "total_ascent", Zero)
        total_calories == Get(session, "total_calories", Zero)
    IN  [total_duration |-> Str(format_duration(total_time)),
         moving_duration |-> Str(format_duration(moving_time)),
         stopped_time |-> IF Truthy(total_time) /\ Truthy(moving_time)
                          THEN Sub(total_time, moving_time) ELSE Zero,
         activity_factor |-> IF IsExc(TrueDiv(moving_time, total_time))
                             THEN TrueDiv(moving_time, total_time)
                             ELSE Mul(TrueDiv(moving_time, total_time), Int2Num(100)),
         total_distance_km |-> total_distance_km,
         total_ascent_m |-> total_ascent_m,
         total_descent_m |-> Get(session, "total_descent", Zero),
         elevation_gain_ratio |-> TrueDiv(total_ascent_m, total_distance_km),
         total_calories |-> total_calories,
         calories_per_hour |-> TrueDiv(total_calories, TrueDiv(moving_time, Int2Num(3600)))]

\* ActivityAnalyzer._analyze_basic_metrics
analyze_basic_metrics(session, records_df) ==
    LET total_time == Get(session, "total_elapsed_time", Zero)
        moving_time == Get(session, "total_timer_time", Zero)
        total_distance_km ==
            IF Truthy(Get(session, "total_distance", None))
            THEN TrueDiv(Get(session, "total_distance", Zero), Int2Num(1000))
            ELSE Zero
        total_ascent_m == Get(session, "total_ascent", Zero)
        total_calories == Get(session, "total_calories", Zero)
    IN  [total_duration |-> Str(format_duration(total_time)),
         moving_duration |-> Str(format_duration(moving_time)),
         stopped_time |-> IF Truthy(total_time) /\ Truthy(moving_time)
                          THEN Sub(total_time, moving_time) ELSE Zero,
         activity_factor |-> IF Positive(total_time)
                             THEN Mul(TrueDiv(moving_time, total_time), Int2Num(100))
                             ELSE Zero,
         total_distance_km |-> total_distance_km,
         total_ascent_m |-> total_ascent_m,
         total_descent_m |-> Get(session, "total_descent", Zero),
         elevation_gain_ratio |-> IF Positive(total_distance_km)
                                  THEN TrueDiv(total_ascent_m, total_distance_km)
                                  ELSE Zero,
         total_calories |-> total_calories,
         calories_per_hour |-> IF Positive(moving_time)
                               THEN TrueDiv(total_calories, TrueDiv(moving_time, Int2Num(3600)))
                               ELSE Zero]

\* faulty variant: exactly 10 samples are still too few
calculate_hr_drift_le(hr_data) ==
    IF Len(hr_data) <= MinDriftSamples THEN None
    ELSE LET n == Len(hr_data)
             x == [i \in 1..n |-> Int2Num(i - 1)]
             xy == [i \in 1..n |-> Mul(x[i], hr_data[i])]
             xx == [i \in 1..n |-> Mul(x[i], x[i])]
             sx == SumFrom(x, 1, n)
             sy == SumFrom(hr_data, 1, n)
         IN  TrueDiv(Sub(Mul(Int2Num(n), SumFrom(xy, 1, n)), Mul(sx, sy)),
                     Sub(Mul(Int2Num(n), SumFrom(xx, 1, n)), Mul(sx, sx)))

\* ActivityAnalyzer._calculate_hr_drift: the slope np.polyfit(x, hr_data, 1)
\* fits by least squares over x = 0 .. n-1
calculate_hr_drift(hr_data) ==
    IF Len(hr_data) < MinDriftSamples THEN None
    ELSE LET n == Len(hr_data)
             x == [i \in 1..n |-> Int2Num(i - 1)]
             xy == [i \in 1..n |-> Mul(x[i], hr_data[i])]
             xx == [i \in 1..n |-> Mul(x[i], x[i])]
             sx == SumFrom(x, 1, n)
             sy == SumFrom(hr_data, 1, n)
         IN  TrueDiv(Sub(Mul(Int2Num(n), SumFrom(xy, 1, n)), Mul(sx, sy)),
                     Sub(Mul(Int2Num(n), SumFrom(xx, 1, n)), Mul(sx, sx)))

\* faulty variant: a channel without samples yields a group filled with zeros
analyze_heart_rate_zeros(records_df, session) ==
    LET hr_data == dropna(records_df["heart_rate"])
    IN  IF Len(hr_data) = 0
        THEN [avg_hr |-> Zero, max_hr |-> Zero, min_hr |-> Zero, hr_range |-> Zero,
              hr_std |-> Zero, hr_variability |-> Zero, hr_drift |-> Zero]
        ELSE LET avg_hr == Get(session, "avg_heart_rate", np_mean(hr_data))
                 max_hr == Get(session, "max_heart_rate", np_max(hr_data))
                 min_hr == np_min(hr_data)
                 hr_std == np_std(hr_data)
             IN  [avg_hr |-> avg_hr,
                  max_hr |-> max_hr,
                  min_hr |-> min_hr,
                  hr_range |-> Sub(max_hr, min_hr),
                  hr_std |-> hr_std,
                  hr_variability |-> NpMul(NpTrueDiv(hr_std, avg_hr), Int2Num(100)),
                  hr_zones |-> calculate_hr_zones(hr_data, DefaultMaxHr),
                  hr_drift |-> calculate_hr_drift(hr_data)]

\* ActivityAnalyzer._analyze_heart_rate
analyze_heart_rate(records_df, session) ==
    LET hr_data == dropna(records_df["heart_rate"])
    IN  IF Len(hr_data) = 0 THEN EmptyDict
        ELSE LET avg_hr == Get(session, "avg_heart_rate", np_mean(hr_data))
                 max_hr == Get(session, "max_heart_rate", np_max(hr_data))
                 min_hr == np_min(hr_data)
                 hr_std == np_std(hr_data)
             IN  [avg_hr |-> avg_hr,
                  max_hr |-> max_hr,
                  min_hr |-> min_hr,
                  hr_range |-> Sub(max_hr, min_hr),
                  hr_std |-> hr_std,
                  hr_variability |-> NpMul(NpTrueDiv(hr_std, avg_hr), Int2Num(100)),
                  hr_zones |-> calculate_hr_zones(hr_data, DefaultMaxHr),
                  hr_drift |-> calculate_hr_drift(hr_data)]

\* the variability index of _analyze_power (lines 160-161)
variability_index(normalized_power, avg_power) ==
    IF Positive(avg_power) THEN TrueDiv(normalized_power, avg_power) ELSE Zero

\* the duration handed to _calculate_tss by _analyze_power (line 153)
duration_hours(power_data) == TrueDiv(Int2Num(Len(power_data)), Int2Num(60))

\* ActivityAnalyzer._analyze_power: the power group, or the exception the
\* variability index raised
analyze_power(records_df, session) ==
    LET power_data == dropna(records_df["power"])
    IN  IF Len(power_data) = 0 THEN EmptyDict
        ELSE LET avg_power == Get(session, "avg_power", np_mean(power_data))
                 normalized_power == calculate_normalized_power(power_data)
                 intensity_factor == calculate_intensity_factor(normalized_power, DefaultFtp)
                 vi == variability_index(normalized_power, avg_power)
             IN  IF IsExc(vi) THEN vi ELSE
                 [avg_power |-> avg_power,
                  max_power |-> Get(session, "max_power", np_max(power_data)),
                  min_power |-> np_min(power_data),
                  power_std |-> np_std(power_data),
                  normalized_power |-> normalized_power,
                  intensity_factor |-> intensity_factor,
                  training_stress_score |->
                      calculate_tss(normalized_power, intensity_factor, duration_hours(power_data)),
                  power_zones |-> calculate_power_zones(power_data, DefaultFtp),
                  variability_index |-> vi]

\* faulty variant: the sport is compared as written, without lower-casing
lower_identity(s) == s

\* str.lower() on the sport names the inputs use
lower(s) ==
    CASE s = "Running" -> "running"
      [] s = "Cycling" -> "cycling"
      [] s = "WALKING" -> "walking"
      [] OTHER -> s

\* ActivityAnalyzer._analyze_pace_speed
analyze_pace_speed(records_df, session) ==
    LET speed_data == dropna(records_df["speed"])
        sport == lower(Get(session, "sport", Str("")).s)
    IN  IF Len(speed_data) = 0 THEN EmptyDict
        ELSE IF sport \in {"running", "walking"}
        THEN LET pace_data == [i \in 1..Len(speed_data) |->
                                  NpTrueDiv(Int2Num(1000), Mul(speed_data[i], Int2Num(60)))]
             IN  [avg_pace_min_per_km |-> np_mean(pace_data),
                  best_pace_min_per_km |-> np_min(pace_data),
                  pace_variability |-> np_std(pace_data)]
        ELSE LET speed_kmh == [i \in 1..Len(speed_data) |-> Mul(speed_data[i], Rat(36, 10))]
             IN  [avg_speed_kmh |-> np_mean(speed_kmh),
                  max_speed_kmh |-> np_max(speed_kmh),
                  speed_variability |-> np_std(speed_kmh)]

HasData(records_df, column) ==
    column \in DOMAIN records_df /\ Len(dropna(records_df[column])) > 0

\* ActivityAnalyzer._analyze_training_zones
analyze_training_zones(records_df, session) ==
    IF records_df = None THEN EmptyDict
    ELSE (IF HasData(records_df, "heart_rate")
          THEN "hr_zones_time" :> calculate_hr_zones(dropna(records_df["heart_rate"]), DefaultMaxHr)
          ELSE EmptyDict)
         @@
         (IF HasData(records_df, "power")
          THEN "power_zones_time" :> calculate_power_zones(dropna(records_df["power"]), DefaultFtp)
          ELSE EmptyDict)

\* ActivityAnalyzer._analyze_pacing_strategy
analyze_pacing_strategy(pace_analysis) ==
    IF "pace_variability" \in DOMAIN pace_analysis
    THEN LET variability == pace_analysis["pace_variability"]
         IN  IF LessThan(variability, Rat(1, 2))
             THEN Str("Very consistent pacing - excellent for endurance")
             ELSE IF LessThan(variability, Int2Num(1))
             THEN Str("Good pacing consistency")
             ELSE Str("Variable pacing - may indicate fatigue or tactical changes")
    ELSE Str("Pacing analysis requires more data")

\* faulty variant: the high-intensity rule is tried before the aerobic rule
analyze_effort_distribution_high_first(hr_analysis) ==
    IF "hr_zones" \in DOMAIN hr_analysis
    THEN LET zones == hr_analysis["hr_zones"]
             zone2_time == Get(zones, "Zone 2 (60-70%)", Zero)
             high_intensity == Add(Get(zones, "Zone 4 (80-90%)", Zero),
                                   Get(zones, "Zone 5 (90-100%)", Zero))
         IN  IF Lt(Int2Num(20), high_intensity)
             THEN Str("High-intensity training session")
             ELSE IF Lt(Int2Num(70), zone2_time)
             THEN Str("Primarily aerobic base training")
             ELSE Str("Mixed intensity training")
    ELSE Str("Effort distribution analysis requires heart rate data")

\* ActivityAnalyzer._analyze_effort_distribution
analyze_effort_distribution(hr_analysis) ==
    IF "hr_zones" \in DOMAIN hr_analysis
    THEN LET zones == hr_analysis["hr_zones"]
             zone2_time == Get(zones, "Zone 2 (60-70%)", Zero)
             high_intensity == Add(Get(zones, "Zone 4 (80-90%)", Zero),
                                   Get(zones, "Zone 5 (90-100%)", Zero))
         IN  IF Lt(Int2Num(70), zone2_time)
             THEN Str("Primarily aerobic base training")
             ELSE IF Lt(Int2Num(20), high_intensity)
             THEN Str("High-intensity training session")
             ELSE Str("Mixed intensity training")
    ELSE Str("Effort distribution analysis requires heart rate data")

\* ActivityAnalyzer._analyze_fatigue_indicators: the list of indicators, or the
\* TypeError that comparing None with 0.1 raises
analyze_fatigue_indicators(report, records_df) ==
    LET hr_drift == IF "heart_rate_analysis" \in DOMAIN report
                    THEN Get(report["heart_rate_analysis"], "hr_drift", Zero) ELSE Zero
        vi == IF "power_analysis" \in DOMAIN report
              THEN Get(report["power_analysis"], "variability_index", Zero) ELSE Zero
        drift_flag == IF GreaterThan(hr_drift, Rat(1, 10))
                      THEN <<Str("Significant heart rate drift indicating cardiovascular fatigue")>>
                      ELSE <<>>
        power_flag == IF GreaterThan(vi, Rat(11, 10))
                      THEN <<Str("High power variability suggesting fatigue or pacing issues")>>
                      ELSE <<>>
        indicators == drift_flag \o power_flag
    IN  IF hr_drift = None THEN TypeError
        ELSE IF Len(indicators) = 0
        THEN List(<<Str("No significant fatigue indicators detected")>>)
        ELSE List(indicators)

\* faulty variant: a ratio above 0.4 already rates as good
assess_workout_quality_lenient(report, session) ==
    LET has_hr == "heart_rate_analysis" \in DOMAIN report
        hr_var == Get(report["heart_rate_analysis"], "hr_variability", Zero)
        total_time == Get(session, "total_elapsed_time", Zero)
        moving_time == Get(session, "total_timer_time", Zero)
        consistency == IF has_hr /\ LessThan(hr_var, Int2Num(10)) THEN 1 ELSE 0
        completion == IF Positive(total_time) /\ Lt(Rat(8, 10), TrueDiv(moving_time, total_time))
                      THEN 1 ELSE 0
        quality_score == consistency + completion
        factors == (IF has_hr THEN 1 ELSE 0) + 1
        quality_ratio == Rat(quality_score, factors)
    IN  IF factors > 0
        THEN (IF Lt(Rat(8, 10), quality_ratio) THEN Str("Excellent workout quality")
              ELSE IF Lt(Rat(4, 10), quality_ratio) THEN Str("Good workout quality")
              ELSE Str("Room for improvement in workout quality"))
        ELSE Str("Workout quality assessment requires more data")

\* faulty variant: one point earned out of two already rates as excellent
assess_workout_quality_half(report, session) ==
    LET has_hr == "heart_rate_analysis" \in DOMAIN report
        hr_var == Get(report["heart_rate_analysis"], "hr_variability", Zero)
        total_time == Get(session, "total_elapsed_time", Zero)
        moving_time == Get(session, "total_timer_time", Zero)
        consistency == IF has_hr /\ LessThan(hr_var, Int2Num(10)) THEN 1 ELSE 0
        completion == IF Positive(total_time) /\ Lt(Rat(8, 10), TrueDiv(moving_time, total_time))
                      THEN 1 ELSE 0
        quality_score == consistency + completion
        factors == (IF has_hr THEN 1 ELSE 0) + 1
        quality_ratio == Rat(quality_score, factors)
    IN  IF factors > 0
        THEN (IF Lt(Rat(4, 10), quality_ratio) THEN Str("Excellent workout quality")
              ELSE Str("Room for improvement in workout quality"))
        ELSE Str("Workout quality assessment requires more data")

\* ActivityAnalyzer._assess_workout_quality
assess_workout_quality(report, session) ==
    LET has_hr == "heart_rate_analysis" \in DOMAIN report
        hr_var == Get(report["heart_rate_analysis"], "hr_variability", Zero)
        total_time == Get(session, "total_elapsed_time", Zero)
        moving_time == Get(session, "total_timer_time", Zero)
        consistency == IF has_hr /\ LessThan(hr_var, Int2Num(10)) THEN 1 ELSE 0
        completion == IF Positive(total_time) /\ Lt(Rat(8, 10), TrueDiv(moving_time, total_time))
                      THEN 1 ELSE 0
        quality_score == consistency + completion
        factors == (IF has_hr THEN 1 ELSE 0) + 1
        quality_ratio == Rat(quality_score, factors)
    IN  IF factors > 0
        THEN (IF Lt(Rat(8, 10), quality_ratio) THEN Str("Excellent workout quality")
              ELSE IF Lt(Rat(6, 10), quality_ratio) THEN Str("Good workout quality")
              ELSE Str("Room for improvement in workout quality"))
        ELSE Str("Workout quality assessment requires more data")

\* ActivityAnalyzer._generate_performance_insights: the insights, or the
\* exception one of its rules raised
generate_performance_insights(report, session, records_df) ==
    LET fatigue == analyze_fatigue_indicators(report, records_df)
    IN  IF fatigue = TypeError THEN TypeError
        ELSE (IF "pace_speed_analysis" \in DOMAIN report /\ DOMAIN report["pace_speed_analysis"] # {}
              THEN "pacing_strategy" :> analyze_pacing_strategy(report["pace_speed_analysis"])
              ELSE EmptyDict)
             @@
             (IF "heart_rate_analysis" \in DOMAIN report /\ DOMAIN report["heart_rate_analysis"] # {}
              THEN "effort_distribution" :> analyze_effort_distribution(report["heart_rate_analysis"])
              ELSE EmptyDict)
             @@
             [fatigue_indicators |-> fatigue,
              workout_quality |-> assess_workout_quality(report, session)]

\* faulty variant: the ratio is taken as channel / speed
efficiency_ratio_mean_inverted(records_df, column) ==
    LET common_indices == {i \in 1..Len(records_df[column]) :
                              records_df[column][i] # NaN /\ records_df["speed"][i] # NaN}
        rows == SelectSeq([i \in 1..Len(records_df[column]) |-> i],
                          LAMBDA i : i \in common_indices)
        efficiency_ratio == [j \in 1..Len(rows) |->
                                NpTrueDiv(records_df[column][rows[j]], records_df["speed"][rows[j]])]
    IN  np_mean(dropna(efficiency_ratio))

\* the mean of speed / channel over the rows where both are present
efficiency_ratio_mean(records_df, column) ==
    LET common_indices == {i \in 1..Len(records_df[column]) :
                              records_df[column][i] # NaN /\ records_df["speed"][i] # NaN}
        rows == SelectSeq([i \in 1..Len(records_df[column]) |-> i],
                          LAMBDA i : i \in common_indices)
        efficiency_ratio == [j \in 1..Len(rows) |->
                                NpTrueDiv(records_df["speed"][rows[j]], records_df[column][rows[j]])]
    IN  np_mean(dropna(efficiency_ratio))

HasCommonRows(records_df, column) ==
    /\ HasData(records_df, column)
    /\ HasData(records_df, "speed")
    /\ \E i \in 1..Len(records_df[column]) :
          records_df[column][i] # NaN /\ records_df["speed"][i] # NaN

\* ActivityAnalyzer._calculate_efficiency_metrics
calculate_efficiency_metrics(records_df, session) ==
    IF records_df = None THEN EmptyDict
    ELSE (IF HasCommonRows(records_df, "heart_rate")
          THEN "hr_efficiency" :> efficiency_ratio_mean(records_df, "heart_rate")
          ELSE EmptyDict)
         @@
         (IF HasCommonRows(records_df, "power")
          THEN "power_efficiency" :> efficiency_ratio_mean(records_df, "power")
          ELSE EmptyDict)

\* ActivityAnalyzer._analyze_environmental_factors
analyze_environmental_factors(records_df, session) ==
    IF records_df = None THEN EmptyDict
    ELSE (IF HasData(records_df, "temperature")
          THEN LET temp_data == dropna(records_df["temperature"])
               IN  [avg_temperature |-> np_mean(temp_data),
                    temp_range |-> Sub(np_max(temp_data), np_min(temp_data))]
          ELSE EmptyDict)
         @@
         (IF HasData(records_df, "altitude")
          THEN LET altitude_data == dropna(records_df["altitude"])
               IN  "elevation_profile" :>
                       [min_elevation |-> np_min(altitude_data),
                        max_elevation |-> np_max(altitude_data),
                        elevation_range |-> Sub(np_max(altitude_data), np_min(altitude_data)),
                        avg_elevation |-> np_mean(altitude_data)]
          ELSE EmptyDict)

(***************************************************************************)
(* analyze_activity, one step per group of the report                      *)
(***************************************************************************)
Idle ==
    /\ activity_data = [session_info |-> <<>>, records_df |-> None]
    /\ analysis = <<>>
    /\ pc = "idle"
    /\ exc = "none"

NoCall ==
    /\ args = <<>>
    /\ call = "none"
    /\ ret = None

session_info == activity_data.session_info
records == activity_data.records_df

HasColumn(column) == records # None /\ column \in DOMAIN records

NoDirectCall == UNCHANGED <<args, call, ret>>

\* lines 31-44: the report starts with its eight groups, all empty
Begin ==
    /\ pc = "ready"
    /\ analysis' = [basic_metrics |-> EmptyDict, heart_rate_analysis |-> EmptyDict,
                    power_analysis |-> EmptyDict, pace_speed_analysis |-> EmptyDict,
                    training_zones |-> EmptyDict, performance_insights |-> EmptyDict,
                    efficiency_metrics |-> EmptyDict, environmental_factors |-> EmptyDict]
    /\ pc' = "basic_metrics"
    /\ UNCHANGED <<activity_data, exc>>
    /\ NoDirectCall

\* line 47
BasicMetrics ==
    /\ pc = "basic_metrics"
    /\ analysis' = [analysis EXCEPT !.basic_metrics = analyze_basic_metrics(session_info, records)]
    /\ pc' = "heart_rate_analysis"
    /\ UNCHANGED <<activity_data, exc>>
    /\ NoDirectCall

\* lines 50-51
HeartRateAnalysis ==
    /\ pc = "heart_rate_analysis"
    /\ analysis' = IF HasColumn("heart_rate")
                   THEN [analysis EXCEPT !.heart_rate_analysis = analyze_heart_rate(records, session_info)]
                   ELSE analysis
    /\ pc' = "power_analysis"
    /\ UNCHANGED <<activity_data, exc>>
    /\ NoDirectCall

\* lines 54-55: an exception raised by _analyze_power leaves analyze_activity
PowerAnalysis ==
    /\ pc = "power_analysis"
    /\ LET result == IF HasColumn("power") THEN analyze_power(records, session_info)
                     ELSE analysis.power_analysis
       IN  IF result \in {TypeError, ZeroDivisionError}
           THEN /\ exc' = result.e
                /\ pc' = "raised"
                /\ UNCHANGED analysis
           ELSE /\ analysis' = [analysis EXCEPT !.power_analysis = result]
                /\ pc' = "pace_speed_analysis"
                /\ UNCHANGED exc
    /\ UNCHANGED activity_data
    /\ NoDirectCall

\* lines 58-59
PaceSpeedAnalysis ==
    /\ pc = "pace_speed_analysis"
    /\ analysis' = IF HasColumn("speed")
                   THEN [analysis EXCEPT !.pace_speed_analysis = analyze_pace_speed(records, session_info)]
                   ELSE analysis
    /\ pc' = "training_zones"
    /\ UNCHANGED <<activity_data, exc>>
    /\ NoDirectCall

\* line 62
TrainingZones ==
    /\ pc = "training_zones"
    /\ analysis' = [analysis EXCEPT !.training_zones = analyze_training_zones(records, session_info)]
    /\ pc' = "performance_insights"
    /\ UNCHANGED <<activity_data, exc>>
    /\ NoDirectCall

\* lines 65-67: an exception raised by an insight rule leaves analyze_activity
PerformanceInsights ==
    /\ pc = "performance_insights"
    /\ LET result == generate_performance_insights(analysis, session_info, records)
       IN  IF result = TypeError
           THEN /\ exc' = result.e
                /\ pc' = "raised"
                /\ UNCHANGED analysis
           ELSE /\ analysis' = [analysis EXCEPT !.performance_insights = result]
                /\ pc' = "efficiency_metrics"
                /\ UNCHANGED exc
    /\ UNCHANGED activity_data
    /\ NoDirectCall

\* lines 70-72
EfficiencyMetrics ==
    /\ pc = "efficiency_metrics"
    /\ analysis' = [analysis EXCEPT !.efficiency_metrics = calculate_efficiency_metrics(records, session_info)]
    /\ pc' = "environmental_factors"
    /\ UNCHANGED <<activity_data, exc>>
    /\ NoDirectCall

\* lines 75-79: the last group, then return analysis
EnvironmentalFactors ==
    /\ pc = "environmental_factors"
    /\ analysis' = [analysis EXCEPT
                       !.environmental_factors = analyze_environmental_factors(records, session_info)]
    /\ pc' = "returned"
    /\ UNCHANGED <<activity_data, exc>>
    /\ NoDirectCall

Next ==
    \/ Begin
    \/ BasicMetrics
    \/ HeartRateAnalysis
    \/ PowerAnalysis
    \/ PaceSpeedAnalysis
    \/ TrainingZones
    \/ PerformanceInsights
    \/ EfficiencyMetrics
    \/ EnvironmentalFactors

(***************************************************************************)
(* The activities analysed                                                 *)
(***************************************************************************)
MaxRows == 32       \* rows of the sample table
MaxHrSamples == 11  \* most heart-rate samples present

\* n samples: a up to position k, b after it (constant when a = b)
StepSeries(n, k, a, b) == [i \in 1..n |-> IF i <= k THEN a ELSE b]
\* n samples alternating a, b, a, b, ...
AltSeries(n, a, b) == [i \in 1..n |-> IF i % 2 = 1 THEN a ELSE b]

\* a column of rows entries: lead absent rows, then the values, then absent rows
Column(values, rows, lead) ==
    [i \in 1..rows |->
        IF i > lead /\ i - lead <= Len(values) THEN values[i - lead] ELSE NaN]

\* power: k samples, constant 2 W, all 0 W, or 1 W then 3 W
PowerColumns ==
    {Column(Series(StepSeries(k, j, a, b)), MaxRows, 0) :
        k \in 0..MaxRows, j \in {0}, a \in {0}, b \in {0, 2}}
    \cup {Column(Series(StepSeries(k, k \div 2, 1, 3)), MaxRows, 1) : k \in 0..(MaxRows - 1)}

\* heart rate: k samples rising by 2 bpm from 114 bpm, or flat at 120 bpm
HrColumns ==
    {Column([i \in 1..k |-> Int2Num(112 + 2 * i)], MaxRows, 0) : k \in 0..MaxHrSamples}
    \cup {Column(Series(StepSeries(k, 0, 120, 120)), MaxRows, 2) : k \in {1, MaxHrSamples}}

\* speed in m/s
SpeedColumns ==
    {Column(<<Rat(5, 2), Int2Num(3), Rat(7, 2)>>, MaxRows, 0),
     Column(<<Int2Num(10), Int2Num(10)>>, MaxRows, 2)}

Sessions ==
    {EmptyDict,
     [sport |-> Str("Running"), total_elapsed_time |-> Int2Num(3660),
      total_timer_time |-> Int2Num(3600), total_distance |-> Int2Num(45000),
      total_calories |-> Int2Num(850), total_ascent |-> Int2Num(300),
      avg_power |-> Int2Num(2), max_power |-> Int2Num(3),
      avg_heart_rate |-> Int2Num(118), max_heart_rate |-> Int2Num(140)],
     [sport |-> Str("cycling"), total_elapsed_time |-> Int2Num(3600),
      total_timer_time |-> Int2Num(1800), avg_power |-> Zero],
     [sport |-> Str("WALKING"), total_timer_time |-> Int2Num(1800),
      avg_heart_rate |-> Zero]}

\* a DataFrame with the chosen columns; <<>> as a column leaves the column out
DataFrame(heart_rate, power, speed) ==
    (IF heart_rate = <<>> THEN EmptyDict ELSE "heart_rate" :> heart_rate)
    @@ (IF power = <<>> THEN EmptyDict ELSE "power" :> power)
    @@ (IF speed = <<>> THEN EmptyDict ELSE "speed" :> speed)

DataFrames ==
    {None} \cup
    {DataFrame(h, p, s) : h \in HrColumns \cup {<<>>}, p \in PowerColumns \cup {<<>>},
                          s \in SpeedColumns \cup {<<>>}}

Init ==
    /\ \E s \in Sessions, df \in DataFrames :
          activity_data = [session_info |-> s, records_df |-> df]
    /\ analysis = <<>>
    /\ pc = "ready"
    /\ exc = "none"
    /\ NoCall

Spec == Init /\ [][Next]_vars

(***************************************************************************)
(* Direct calls of the helper methods, as the unit tests make them         *)
(***************************************************************************)
MaxLen == 33        \* longest power series drawn
MaxPower == 3       \* largest power sample drawn (watts)
MaxZoneLen == 3     \* longest series handed to the zone methods

PowerSeries ==
    {StepSeries(n, k, a, b) : n \in 0..MaxLen, k \in 0..MaxLen, a \in 0..MaxPower, b \in 0..MaxPower}
    \cup {AltSeries(n, a, b) : n \in 0..MaxLen, a \in 0..MaxPower, b \in 0..MaxPower}

FtpArgs == {-250, 0, 250}
DurationArgs == {Zero, Rat(1, 2)}

\* values on, between and outside the zone bounds of max_hr = 190, 200 and
\* ftp = 250, 300
ZoneSamples == {0, 95, 114, 120, 171, 190, 225, 300, 301}
ThresholdArgs == {190, 200, 250, 300}

RECURSIVE SeqsUpTo(_, _)
\* all sequences over S of length at most n
SeqsUpTo(S, n) ==
    IF n = 0 THEN {<<>>}
    ELSE LET shorter == SeqsUpTo(S, n - 1)
         IN  shorter \cup {Append(q, x) : q \in {r \in shorter : Len(r) = n - 1}, x \in S}

InitPower ==
    /\ Idle
    /\ \E ints \in PowerSeries, f \in FtpArgs, dur \in DurationArgs :
          args = [power_data |-> Series(ints), ftp |-> f, duration_hours |-> dur,
                  normalized_power |-> None, intensity_factor |-> None]
    /\ call = "none"
    /\ ret = None

\* analyzer._calculate_normalized_power(power_data)
CallAnalyzerNormalizedPower ==
    /\ call = "none"
    /\ call' = "ActivityAnalyzer._calculate_normalized_power"
    /\ ret' = calculate_normalized_power(args.power_data)
    /\ UNCHANGED <<activity_data, analysis, pc, exc, args>>

\* parser._calculate_normalized_power(power_data)
CallParserNormalizedPower ==
    /\ call = "none"
    /\ call' = "FitFileParser._calculate_normalized_power"
    /\ ret' = parser_calculate_normalized_power(args.power_data)
    /\ UNCHANGED <<activity_data, analysis, pc, exc, args>>

\* analyzer._calculate_intensity_factor(normalized_power, ftp), on the value the
\* analyzer's Normalized Power call returned
CallIntensityFactor ==
    /\ call = "ActivityAnalyzer._calculate_normalized_power"
    /\ call' = "ActivityAnalyzer._calculate_intensity_factor"
    /\ args' = [args EXCEPT !.normalized_power = ret]
    /\ ret' = calculate_intensity_factor(ret, args.ftp)
    /\ UNCHANGED <<activity_data, analysis, pc, exc>>

\* analyzer._calculate_tss(normalized_power, intensity_factor, duration_hours),
\* on the value the Intensity Factor call returned
CallTss ==
    /\ call = "ActivityAnalyzer._calculate_intensity_factor"
    /\ call' = "ActivityAnalyzer._calculate_tss"
    /\ args' = [args EXCEPT !.intensity_factor = ret]
    /\ ret' = calculate_tss(args.normalized_power, ret, args.duration_hours)
    /\ UNCHANGED <<activity_data, analysis, pc, exc>>

NextPower ==
    \/ CallAnalyzerNormalizedPower
    \/ CallParserNormalizedPower
    \/ CallIntensityFactor
    \/ CallTss

SpecPower == InitPower /\ [][NextPower]_vars

InitZones ==
    /\ Idle
    /\ \E ints \in SeqsUpTo(ZoneSamples, MaxZoneLen), th \in ThresholdArgs :
          args = [data |-> Series(ints), threshold |-> th]
    /\ call = "none"
    /\ ret = None

\* analyzer._calculate_hr_zones(hr_data, max_hr)
CallHrZones ==
    /\ call = "none"
    /\ call' = "ActivityAnalyzer._calculate_hr_zones"
    /\ ret' = calculate_hr_zones(args.data, args.threshold)
    /\ UNCHANGED <<activity_data, analysis, pc, exc, args>>

\* analyzer._calculate_power_zones(power_data, ftp)
CallPowerZones ==
    /\ call = "none"
    /\ call' = "ActivityAnalyzer._calculate_power_zones"
    /\ ret' = calculate_power_zones(args.data, args.threshold)
    /\ UNCHANGED <<activity_data, analysis, pc, exc, args>>

NextZones ==
    \/ CallHrZones
    \/ CallPowerZones

SpecZones == InitZones /\ [][NextZones]_vars

(***************************************************************************)
(* Direct calls of the heart-rate drift and insight helpers                *)
(***************************************************************************)
MaxDriftLen == 12   \* longest heart-rate series handed to the helpers

\* bpm values in Zone 1, in Zone 2 and on the Zone 4 / Zone 5 bound of 190 bpm
HrValues == {100, 120, 171}

HrSeries ==
    {StepSeries(n, k, a, b) : n \in 0..MaxDriftLen, k \in 0..MaxDriftLen,
                              a \in HrValues, b \in HrValues}

\* the power group as the fatigue rule reads it: empty, or with a variability
\* index below, on and above 1.1
PowerGroups ==
    {EmptyDict} \cup {[variability_index |-> vi] : vi \in {Zero, Rat(11, 10), Rat(6, 5)}}

\* the heart-rate group _analyze_heart_rate builds for a series
HrGroup(hr_data, session) ==
    IF Len(hr_data) = 0 THEN EmptyDict
    ELSE analyze_heart_rate([heart_rate |-> hr_data], session)

InitInsights ==
    /\ Idle
    /\ \E ints \in HrSeries, s \in Sessions, pw \in PowerGroups, keyed \in BOOLEAN :
          args = [hr_data |-> Series(ints), session |-> s,
                  analysis |-> IF keyed
                               THEN [heart_rate_analysis |-> HrGroup(Series(ints), s),
                                     power_analysis |-> pw]
                               ELSE [power_analysis |-> pw]]
    /\ call = "none"
    /\ ret = None

\* analyzer._calculate_hr_drift(hr_data)
CallHrDrift ==
    /\ call = "none"
    /\ call' = "ActivityAnalyzer._calculate_hr_drift"
    /\ ret' = calculate_hr_drift(args.hr_data)
    /\ UNCHANGED <<activity_data, analysis, pc, exc, args>>

\* analyzer._analyze_effort_distribution(analysis['heart_rate_analysis'])
CallEffortDistribution ==
    /\ call = "none"
    /\ "heart_rate_analysis" \in DOMAIN args.analysis
    /\ call' = "ActivityAnalyzer._analyze_effort_distribution"
    /\ ret' = analyze_effort_distribution(args.analysis["heart_rate_analysis"])
    /\ UNCHANGED <<activity_data, analysis, pc, exc, args>>

\* analyzer._analyze_fatigue_indicators(analysis, records_df)
CallFatigueIndicators ==
    /\ call = "none"
    /\ call' = "ActivityAnalyzer._analyze_fatigue_indicators"
    /\ ret' = analyze_fatigue_indicators(args.analysis, None)
    /\ UNCHANGED <<activity_data, analysis, pc, exc, args>>

\* analyzer._assess_workout_quality(analysis, session)
CallWorkoutQuality ==
    /\ call = "none"
    /\ call' = "ActivityAnalyzer._assess_workout_quality"
    /\ ret' = assess_workout_quality(args.analysis, args.session)
    /\ UNCHANGED <<activity_data, analysis, pc, exc, args>>

NextInsights ==
    \/ CallHrDrift
    \/ CallEffortDistribution
    \/ CallFatigueIndicators
    \/ CallWorkoutQuality

SpecInsights == InitInsights /\ [][NextInsights]_vars

(***************************************************************************)
(* Properties of Normalized Power and Intensity Factor (SpecPower)         *)
(***************************************************************************)
NormalizedPowerCalls ==
    {"ActivityAnalyzer._calculate_normalized_power", "FitFileParser._calculate_normalized_power"}

\* the integer samples of a series of whole numbers
Samples(series) == [i \in 1..Len(series) |-> series[i].n]

IsConstant(series) == \A i \in 1..Len(series) : series[i] = series[1]

RECURSIVE SumInts(_, _, _)
SumInts(ints, lo, hi) == IF lo > hi THEN 0 ELSE ints[lo] + SumInts(ints, lo + 1, hi)

RECURSIVE SumOver(_, _, _)
\* term(lo) + ... + term(hi) for rational terms
SumOver(term(_), lo, hi) == IF lo > hi THEN Zero ELSE Add(term(lo), SumOver(term, lo + 1, hi))

\* C2: both Normalized Power methods return None for every series of fewer
\* than 30 samples and a number for every series of 30 or more samples
C2_NormalizedPowerAvailable ==
    call \in NormalizedPowerCalls =>
        /\ Len(args.power_data) < 30 => ret = None
        /\ Len(args.power_data) >= 30 => IsNum(ret)

\* reached: both methods have answered a series of exactly 30 samples with a number
C2_Witness ==
    /\ call = "FitFileParser._calculate_normalized_power"
    /\ Len(args.power_data) = 30
    /\ IsNum(ret)
    /\ calculate_normalized_power(args.power_data) = ret

\* C3: for a constant series of value P > 0 with at least 30 samples, Normalized
\* Power equals P
C3_ConstantSeries ==
    (/\ call \in NormalizedPowerCalls
     /\ Len(args.power_data) >= 30
     /\ IsConstant(args.power_data)
     /\ args.power_data[1].n > 0)
    => ret = args.power_data[1]

\* reached: a constant series of 31 samples of 2 W answered with 2
C3_Witness ==
    /\ call = "ActivityAnalyzer._calculate_normalized_power"
    /\ Len(args.power_data) = 31
    /\ IsConstant(args.power_data)
    /\ args.power_data[1] = Int2Num(2)
    /\ ret = Int2Num(2)

\* the fourth power of the mean of the 30 samples starting at position j
FullWindowMean4(ints, j) == Pow4(Rat(SumInts(ints, j, j + 29), 30))

\* C4: for n >= 30 samples, Normalized Power to the fourth is the arithmetic
\* mean of the fourth powers of the means of exactly the n - 29 full contiguous
\* 30-sample windows
C4_FullWindowsOnly ==
    (call \in NormalizedPowerCalls /\ Len(args.power_data) >= 30) =>
        LET ints == Samples(args.power_data)
            n == Len(ints)
            term(j) == FullWindowMean4(ints, j)
        IN  /\ IsNum(ret)
            /\ FourthPower(ret) = Mul(SumOver(term, 1, n - 29), Rat(1, n - 29))

\* reached: a series that is not constant, with more than one full window,
\* whose Normalized Power is not rational
C4_Witness ==
    /\ call = "ActivityAnalyzer._calculate_normalized_power"
    /\ Len(args.power_data) >= 32
    /\ ~IsConstant(args.power_data)
    /\ IsNum(ret)
    /\ ret.k = 4

\* C6: Intensity Factor is None exactly when Normalized Power is None or
\* FTP <= 0, is otherwise Normalized Power / FTP, and never an error
C6_IntensityFactor ==
    call = "ActivityAnalyzer._calculate_intensity_factor" =>
        /\ ret = None <=> (args.normalized_power = None \/ args.ftp <= 0)
        /\ ret # None => (IsNum(ret) /\ Mul(ret, Int2Num(args.ftp)) = args.normalized_power)

\* reached: an available Normalized Power with FTP = 0 gives None, and with
\* FTP = 250 a number
C6_Witness ==
    /\ call = "ActivityAnalyzer._calculate_intensity_factor"
    /\ args.normalized_power # None
    /\ \/ (args.ftp = 0 /\ ret = None)
       \/ (args.ftp = 250 /\ IsNum(ret) /\ ~IsZero(ret))

(***************************************************************************)
(* Properties of the zone methods (SpecZones)                              *)
(***************************************************************************)
ZoneCalls == {"ActivityAnalyzer._calculate_hr_zones", "ActivityAnalyzer._calculate_power_zones"}

\* the zone tables as percentages of the threshold; an upper bound of -1 is
\* "no upper bound"
HrBands ==
    [z \in {"Zone 1 (50-60%)", "Zone 2 (60-70%)", "Zone 3 (70-80%)", "Zone 4 (80-90%)",
            "Zone 5 (90-100%)"} |->
        CASE z = "Zone 1 (50-60%)" -> <<50, 60>>
          [] z = "Zone 2 (60-70%)" -> <<60, 70>>
          [] z = "Zone 3 (70-80%)" -> <<70, 80>>
          [] z = "Zone 4 (80-90%)" -> <<80, 90>>
          [] z = "Zone 5 (90-100%)" -> <<90, 100>>]

PowerBands ==
    [z \in {"Zone 1 (0-55%)", "Zone 2 (55-75%)", "Zone 3 (75-90%)", "Zone 4 (90-105%)",
            "Zone 5 (105-120%)", "Zone 6 (120%+)"} |->
        CASE z = "Zone 1 (0-55%)" -> <<0, 55>>
          [] z = "Zone 2 (55-75%)" -> <<55, 75>>
          [] z = "Zone 3 (75-90%)" -> <<75, 90>>
          [] z = "Zone 4 (90-105%)" -> <<90, 105>>
          [] z = "Zone 5 (105-120%)" -> <<105, 120>>
          [] z = "Zone 6 (120%+)" -> <<120, -1>>]

BandsOf(c) == IF c = "ActivityAnalyzer._calculate_hr_zones" THEN HrBands ELSE PowerBands

\* v lies in the closed band [lo% , hi%] of threshold th
InBand(v, th, band) ==
    /\ band[1] * th <= 100 * v
    /\ band[2] = -1 \/ 100 * v <= band[2] * th

\* v lies on a bound that two zones of the table share
OnSharedBound(v, th, bands) ==
    \E z1, z2 \in DOMAIN bands : z1 # z2 /\ bands[z1][2] = bands[z2][1] /\ 100 * v = bands[z1][2] * th

\* v lies in some zone of the table
InRange(v, th, bands) == \E z \in DOMAIN bands : InBand(v, th, bands[z])

RECURSIVE SumZones(_, _)
\* the sum of the percentages of the zones in names
SumZones(times, names) ==
    IF names = {} THEN Zero
    ELSE LET z == CHOOSE x \in names : TRUE
         IN  Add(times[z], SumZones(times, names \ {z}))

\* C8: each of the 5 heart-rate and 6 power zone values is
\* (samples with lower <= v <= upper) / (samples) x 100, between 0 and 100;
\* with no samples every zone value is 0
C8_ZonePercentage ==
    call \in ZoneCalls =>
        LET bands == BandsOf(call)
            ints == Samples(args.data)
            n == Len(ints)
            count(z) == Cardinality({i \in 1..n : InBand(ints[i], args.threshold, bands[z])})
        IN  /\ DOMAIN ret = DOMAIN bands
            /\ Cardinality(DOMAIN ret) = IF call = "ActivityAnalyzer._calculate_hr_zones" THEN 5 ELSE 6
            /\ \A z \in DOMAIN bands :
                  /\ ret[z] = IF n = 0 THEN Zero ELSE Rat(100 * count(z), n)
                  /\ Le(Zero, ret[z]) /\ Le(ret[z], Int2Num(100))

\* reached: a zone holding one of three samples, and the empty series
C8_Witness ==
    /\ call = "ActivityAnalyzer._calculate_power_zones"
    /\ Len(args.data) = 3
    /\ \E z \in DOMAIN ret : ret[z] = Rat(100, 3)

\* C9: zone bounds are inclusive on both ends: every sample on a bound shared by
\* two adjacent zones is counted in both of them, and every other sample inside
\* the table is counted exactly once
C9_InclusiveBounds ==
    (call \in ZoneCalls /\ Len(args.data) > 0) =>
        LET bands == BandsOf(call)
            th == args.threshold
            ints == Samples(args.data)
            n == Len(ints)
            on(b) == Cardinality({i \in 1..n : 100 * ints[i] = b * th})
            mult(v) == IF OnSharedBound(v, th, bands) THEN 2
                       ELSE IF InRange(v, th, bands) THEN 1 ELSE 0
            memberships == SumInts([i \in 1..n |-> mult(ints[i])], 1, n)
        IN  /\ \A z1, z2 \in DOMAIN bands :
                  (z1 # z2 /\ bands[z1][2] = bands[z2][1]) =>
                      /\ Le(Rat(100 * on(bands[z1][2]), n), ret[z1])
                      /\ Le(Rat(100 * on(bands[z1][2]), n), ret[z2])
            /\ SumZones(ret, DOMAIN ret) = Rat(100 * memberships, n)

\* reached: a single sample of exactly 60% of max HR 190 fills Zone 1 and Zone 2
C9_Witness ==
    /\ call = "ActivityAnalyzer._calculate_hr_zones"
    /\ args.threshold = 190
    /\ args.data = Series(<<114>>)
    /\ ret["Zone 1 (50-60%)"] = Int2Num(100)
    /\ ret["Zone 2 (60-70%)"] = Int2Num(100)
    /\ ret["Zone 3 (70-80%)"] = Zero

SomeOnSharedBound(c) ==
    \E i \in 1..Len(args.data) : OnSharedBound(args.data[i].n, args.threshold, BandsOf(c))

AllInRange(c) ==
    \A i \in 1..Len(args.data) : InRange(args.data[i].n, args.threshold, BandsOf(c))

AllZonesZero == \A z \in DOMAIN ret : ret[z] = Zero

\* C10 as stated: with n >= 1 samples the percentages sum to at least 100 if and
\* only if some sample lies on a shared bound; with n = 0 every value is 0
C10_AsStated ==
    call \in ZoneCalls =>
        /\ Len(args.data) = 0 => AllZonesZero
        /\ Len(args.data) >= 1 =>
              (Le(Int2Num(100), SumZones(ret, DOMAIN ret)) <=> SomeOnSharedBound(call))

\* C10 amended: with n >= 1 samples the percentages sum to more than 100 only if
\* some sample lies on a shared bound; when every sample lies inside the table
\* the sum is at least 100, and more than 100 if and only if some sample lies on
\* a shared bound; with n = 0 every value is 0
C10_SumOfZones ==
    call \in ZoneCalls =>
        LET total == SumZones(ret, DOMAIN ret)
        IN  /\ Len(args.data) = 0 => AllZonesZero
            /\ Len(args.data) >= 1 =>
                  /\ Lt(Int2Num(100), total) => SomeOnSharedBound(call)
                  /\ AllInRange(call) =>
                        /\ Le(Int2Num(100), total)
                        /\ Lt(Int2Num(100), total) <=> SomeOnSharedBound(call)

\* reached: samples all inside the table, one of them on a shared bound, summing
\* to more than 100
C10_Witness ==
    /\ call = "ActivityAnalyzer._calculate_power_zones"
    /\ Len(args.data) = 2
    /\ AllInRange(call)
    /\ SomeOnSharedBound(call)
    /\ SumZones(ret, DOMAIN ret) = Int2Num(150)

(***************************************************************************)
(* Properties of analyze_activity (Spec)                                   *)
(***************************************************************************)
\* the number of samples present in a column of the table, 0 without the column
SamplesPresent(column) == IF HasColumn(column) THEN Len(dropna(records[column])) ELSE 0

PowerStepDone == pc \notin {"idle", "ready", "basic_metrics", "heart_rate_analysis", "power_analysis"}

\* C1: analyze_activity never lets an exception escape for missing or short
\* channels: whatever the per-channel sample counts, it returns a report in which
\* every metric that requires N samples is None when there are too few
C1_NoExceptionEscapes ==
    /\ exc = "none"
    /\ pc # "raised"
    /\ pc = "returned" =>
          /\ SamplesPresent("power") \in 1..29 =>
                /\ analysis.power_analysis["normalized_power"] = None
                /\ analysis.power_analysis["intensity_factor"] = None
                /\ analysis.power_analysis["training_stress_score"] = None
          /\ SamplesPresent("heart_rate") \in 1..9 =>
                analysis.heart_rate_analysis["hr_drift"] = None

\* C5: training_stress_score = duration_hours x IntensityFactor^2 x 100 with
\* duration_hours = (number of power samples) / 3600, and None when the
\* Intensity Factor is None
C5_TrainingStressScore ==
    (PowerStepDone /\ DOMAIN analysis.power_analysis # {}) =>
        LET n == SamplesPresent("power")
            intensity == analysis.power_analysis["intensity_factor"]
        IN  analysis.power_analysis["training_stress_score"] =
                IF intensity = None THEN None
                ELSE Mul(Mul(Rat(n, 3600), Square(intensity)), Int2Num(100))

\* C7: variability_index = Normalized Power / average power, 0 when the average
\* power is 0, and computing it never fails, also with fewer than 30 samples
C7_VariabilityIndex ==
    (PowerStepDone /\ SamplesPresent("power") > 0) =>
        /\ pc # "raised" \/ DOMAIN analysis.power_analysis # {}
        /\ DOMAIN analysis.power_analysis # {} =>
              LET avg == analysis.power_analysis["avg_power"]
                  np == analysis.power_analysis["normalized_power"]
                  vi == analysis.power_analysis["variability_index"]
              IN  /\ IsNum(vi)
                  /\ ~Positive(avg) => vi = Zero
                  /\ (Positive(avg) /\ np # None) => Mul(vi, avg) = np

(***************************************************************************)
(* Properties of the heart-rate drift and the insight helpers              *)
(* (SpecInsights)                                                          *)
(***************************************************************************)
RECURSIVE SumIndexed(_, _, _)
\* term(lo) + ... + term(hi) for integer terms
SumIndexed(term(_), lo, hi) == IF lo > hi THEN 0 ELSE term(lo) + SumIndexed(term, lo + 1, hi)

\* the normal equation of the least-squares line through (i - 1, y[i]):
\* slope * (n * Sxx - Sx^2) = n * Sxy - Sx * Sy
IsLeastSquaresSlope(slope, y) ==
    LET n == Len(y)
        X(i) == i - 1
        Y(i) == y[i]
        XY(i) == (i - 1) * y[i]
        XX(i) == (i - 1) * (i - 1)
        Sx == SumIndexed(X, 1, n)
        Sy == SumIndexed(Y, 1, n)
    IN  Mul(slope, Int2Num(n * SumIndexed(XX, 1, n) - Sx * Sx))
            = Int2Num(n * SumIndexed(XY, 1, n) - Sx * Sy)

HeartRateStepDone == pc \notin {"idle", "ready", "basic_metrics", "heart_rate_analysis"}

\* C12: hr_variability = hr_std / avg_hr x 100, and with avg_hr = 0 the
\* heart-rate analysis is guarded: no division by zero (no inf or nan result)
\* and no exception
C12_HrVariabilityGuarded ==
    (HeartRateStepDone /\ SamplesPresent("heart_rate") > 0) =>
        LET group == analysis.heart_rate_analysis
        IN  /\ DOMAIN group # {}
            /\ IsZero(group["avg_hr"]) => group["hr_variability"] \notin {Inf, NaN}
            /\ (~IsZero(group["avg_hr"]) /\ IsNum(group["hr_std"])) =>
                  Mul(group["hr_variability"], group["avg_hr"])
                      = Mul(group["hr_std"], Int2Num(100))

\* the statistics of a series of whole numbers, computed on the integers
SampleSum(v) == SumInts(Samples(v), 1, Len(v))
SampleMean(v) == Rat(SampleSum(v), Len(v))
SampleMax(v) == Int2Num(CHOOSE m \in {v[i].n : i \in 1..Len(v)} : \A i \in 1..Len(v) : v[i].n <= m)
SampleMin(v) == Int2Num(CHOOSE m \in {v[i].n : i \in 1..Len(v)} : \A i \in 1..Len(v) : m <= v[i].n)

\* the sample variance (n * Sum y^2 - (Sum y)^2) / (n * (n - 1)), for n >= 2
SampleVariance(v) ==
    LET n == Len(v)
        YY(i) == v[i].n * v[i].n
    IN  Rat(n * SumIndexed(YY, 1, n) - SampleSum(v) * SampleSum(v), n * (n - 1))

\* std is the sample standard deviation of v: NaN for fewer than two samples
IsSampleStd(std, v) ==
    IF Len(v) < 2 THEN std = NaN
    ELSE /\ IsNum(std)
         /\ std.n >= 0
         /\ Mul(Pow2(Rat(std.n, std.d)), Rat(std.rn, std.rd)) = SampleVariance(v)

\* the value a group reports for a statistic the session summary may provide
SummaryOr(key, computed) ==
    IF key \in DOMAIN session_info THEN session_info[key] ELSE computed

\* C13: in the power and heart-rate groups the average and maximum are the
\* session-summary values when the summary has them and the sample mean and
\* maximum otherwise; minimum and standard deviation always come from the samples
C13_SummaryPreferred ==
    /\ (HeartRateStepDone /\ SamplesPresent("heart_rate") > 0) =>
          LET group == analysis.heart_rate_analysis
              v == dropna(records["heart_rate"])
          IN  /\ group["avg_hr"] = SummaryOr("avg_heart_rate", SampleMean(v))
              /\ group["max_hr"] = SummaryOr("max_heart_rate", SampleMax(v))
              /\ group["min_hr"] = SampleMin(v)
              /\ IsSampleStd(group["hr_std"], v)
    /\ (PowerStepDone /\ DOMAIN analysis.power_analysis # {}) =>
          LET group == analysis.power_analysis
              v == dropna(records["power"])
          IN  /\ group["avg_power"] = SummaryOr("avg_power", SampleMean(v))
              /\ group["max_power"] = SummaryOr("max_power", SampleMax(v))
              /\ group["min_power"] = SampleMin(v)
              /\ IsSampleStd(group["power_std"], v)

\* reached: a heart-rate group whose average is the summary's value, not the
\* sample mean, and whose maximum is the sample maximum the summary lacks, next
\* to a power group whose average is the sample mean the summary lacks
C13_Witness ==
    /\ PowerStepDone
    /\ SamplesPresent("heart_rate") > 1
    /\ "avg_heart_rate" \in DOMAIN session_info
    /\ "max_heart_rate" \notin DOMAIN session_info
    /\ analysis.heart_rate_analysis["avg_hr"] # SampleMean(dropna(records["heart_rate"]))
    /\ analysis.heart_rate_analysis["max_hr"] = SampleMax(dropna(records["heart_rate"]))
    /\ DOMAIN analysis.power_analysis # {}
    /\ "avg_power" \notin DOMAIN session_info
    /\ analysis.power_analysis["avg_power"] = SampleMean(dropna(records["power"]))
    /\ IsNum(analysis.power_analysis["power_std"])
    /\ ~IsZero(analysis.power_analysis["power_std"])

Groups ==
    {"basic_metrics", "heart_rate_analysis", "power_analysis", "pace_speed_analysis",
     "training_zones", "performance_insights", "efficiency_metrics", "environmental_factors"}

IsEmptyGroup(name) == DOMAIN analysis[name] = {}

\* C14: every report analyze_activity returns holds all eight groups, also
\* without a sample table or with a channel that has no samples; the group of a
\* channel without samples is an empty mapping
C14_AllGroupsPresent ==
    pc = "returned" =>
        /\ DOMAIN analysis = Groups
        /\ SamplesPresent("heart_rate") = 0 => IsEmptyGroup("heart_rate_analysis")
        /\ SamplesPresent("power") = 0 => IsEmptyGroup("power_analysis")
        /\ SamplesPresent("speed") = 0 => IsEmptyGroup("pace_speed_analysis")
        /\ (SamplesPresent("heart_rate") = 0 /\ SamplesPresent("power") = 0) =>
              IsEmptyGroup("training_zones")
        /\ records = None =>
              IsEmptyGroup("efficiency_metrics") /\ IsEmptyGroup("environmental_factors")

\* reached: a report returned for a table whose heart-rate column holds no
\* sample while its power column does
C14_Witness ==
    /\ pc = "returned"
    /\ HasColumn("heart_rate")
    /\ SamplesPresent("heart_rate") = 0
    /\ SamplesPresent("power") > 0
    /\ ~IsEmptyGroup("power_analysis")

(***************************************************************************)
(* Properties of the insight rules                                         *)
(***************************************************************************)
Range(seq) == {seq[i] : i \in 1..Len(seq)}

DriftFlag == Str("Significant heart rate drift indicating cardiovascular fatigue")
PowerFlag == Str("High power variability suggesting fatigue or pacing issues")
NoFatigueMarker == Str("No significant fatigue indicators detected")

\* the HR drift and Variability Index of a report, 0 where the report has none
DriftOf(report) ==
    IF "heart_rate_analysis" \in DOMAIN report /\ "hr_drift" \in DOMAIN report["heart_rate_analysis"]
    THEN report["heart_rate_analysis"]["hr_drift"] ELSE Zero
VariabilityIndexOf(report) ==
    IF "power_analysis" \in DOMAIN report /\ "variability_index" \in DOMAIN report["power_analysis"]
    THEN report["power_analysis"]["variability_index"] ELSE Zero

\* C15: fatigue_indicators is a list that is never empty; it holds the
\* cardiovascular-fatigue flag exactly when HR drift > 0.1, the power-variability
\* flag exactly when the Variability Index > 1.1, and the 'No significant fatigue
\* indicators detected' marker exactly when neither flag is present
C15_FatigueIndicators ==
    call = "ActivityAnalyzer._analyze_fatigue_indicators" =>
        LET drift == DriftOf(args.analysis)
            driftHigh == drift # None /\ GreaterThan(drift, Rat(1, 10))
            viHigh == GreaterThan(VariabilityIndexOf(args.analysis), Rat(11, 10))
        IN  /\ ret.t = "list"
            /\ Len(ret.items) > 0
            /\ DriftFlag \in Range(ret.items) <=> driftHigh
            /\ PowerFlag \in Range(ret.items) <=> viHigh
            /\ NoFatigueMarker \in Range(ret.items) <=> (~driftHigh /\ ~viHigh)

InsightsStepDone ==
    pc \in {"efficiency_metrics", "environmental_factors", "returned"}

\* no factor of the workout quality can be evaluated: no heart-rate sample and
\* no elapsed time above 0 in the session
NoQualityFactor ==
    /\ SamplesPresent("heart_rate") = 0
    /\ ~Positive(Get(session_info, "total_elapsed_time", Zero))

\* C16: when no workout-quality factor can be evaluated, the workout_quality
\* insight is 'Workout quality assessment requires more data', not a rating
C16_InsufficientData ==
    (InsightsStepDone /\ NoQualityFactor) =>
        analysis.performance_insights["workout_quality"]
            = Str("Workout quality assessment requires more data")

\* the points of the workout quality and the points attempted, on the integers
HrPointAttempted == "heart_rate_analysis" \in DOMAIN args.analysis
HrPoint ==
    /\ HrPointAttempted
    /\ LET group == args.analysis["heart_rate_analysis"]
       IN  IF "hr_variability" \in DOMAIN group
           THEN LessThan(group["hr_variability"], Int2Num(10))
           ELSE TRUE
TimePoint ==
    /\ "total_elapsed_time" \in DOMAIN args.session
    /\ args.session["total_elapsed_time"].n > 0
    /\ "total_timer_time" \in DOMAIN args.session
    /\ 5 * args.session["total_timer_time"].n > 4 * args.session["total_elapsed_time"].n
QualityPoints == (IF HrPoint THEN 1 ELSE 0) + (IF TimePoint THEN 1 ELSE 0)
PointsAttempted == (IF HrPointAttempted THEN 1 ELSE 0) + 1

PacingDeviation ==
    LET group == analysis.pace_speed_analysis
    IN  IF "pace_variability" \in DOMAIN group
        THEN group["pace_variability"] ELSE group["speed_variability"]

\* C18: whenever the pace/speed group is non-empty, for running/walking and for
\* every other sport alike, pacing_strategy is 'very consistent' for a standard
\* deviation < 0.5, 'good consistency' for >= 0.5 and < 1.0, 'variable pacing'
\* for >= 1.0
C18_PacingStrategy ==
    (InsightsStepDone /\ DOMAIN analysis.pace_speed_analysis # {}) =>
        /\ "pacing_strategy" \in DOMAIN analysis.performance_insights
        /\ analysis.performance_insights["pacing_strategy"] =
              IF LessThan(PacingDeviation, Rat(1, 2))
              THEN Str("Very consistent pacing - excellent for endurance")
              ELSE IF LessThan(PacingDeviation, Int2Num(1))
              THEN Str("Good pacing consistency")
              ELSE Str("Variable pacing - may indicate fatigue or tactical changes")

\* the number of samples of the call's heart-rate series within lo..hi bpm
CountIn(lo, hi) ==
    Cardinality({i \in 1..Len(args.hr_data) : lo <= args.hr_data[i].n /\ args.hr_data[i].n <= hi})

\* Zone 2 holds more than 70% of the samples; Zone 4 and Zone 5 together more
\* than 20% (bounds of max_hr = 190: 114..133, 152..171, 171..190)
MostlyZone2 == 100 * CountIn(114, 133) > 70 * Len(args.hr_data)
HighIntensity == 100 * (CountIn(152, 171) + CountIn(171, 190)) > 20 * Len(args.hr_data)

\* C19: effort_distribution is 'aerobic base' when the Zone 2 percentage is
\* > 70, otherwise 'high-intensity' when Zone 4 plus Zone 5 are > 20, otherwise
\* 'mixed'; when both hold the aerobic rule wins
C19_EffortDistribution ==
    (/\ call = "ActivityAnalyzer._analyze_effort_distribution"
     /\ Len(args.hr_data) > 0) =>
        ret = IF MostlyZone2 THEN Str("Primarily aerobic base training")
              ELSE IF HighIntensity THEN Str("High-intensity training session")
              ELSE Str("Mixed intensity training")

\* reached: both rules apply to the series and the answer is the aerobic one
C19_Witness ==
    /\ call = "ActivityAnalyzer._analyze_effort_distribution"
    /\ Len(args.hr_data) > 0
    /\ MostlyZone2
    /\ HighIntensity
    /\ ret = Str("Primarily aerobic base training")

PaceSpeedStepDone ==
    pc \in {"training_zones", "performance_insights", "efficiency_metrics",
            "environmental_factors", "returned"}

\* the session's sport is running or walking, in any letter case the sessions use
FootSports == {"running", "Running", "RUNNING", "walking", "Walking", "WALKING"}
IsFootSport == "sport" \in DOMAIN session_info /\ session_info["sport"].s \in FootSports

SpeedSamples == dropna(records["speed"])
\* 1000 / (s * 60) min/km and s * 3.6 km/h of the i-th speed sample
PaceOf(i) == Rat(1000 * SpeedSamples[i].d, 60 * SpeedSamples[i].n)
KmhOf(i) == Rat(36 * SpeedSamples[i].n, 10 * SpeedSamples[i].d)

\* avg and std are the mean and the sample standard deviation of value(1..n)
IsMeanAndStd(avg, std, value(_), n) ==
    LET SquaredDeviation(i) == Pow2(Sub(value(i), avg))
    IN  /\ Mul(avg, Int2Num(n)) = SumOver(value, 1, n)
        /\ IF n < 2 THEN std = NaN
           ELSE /\ IsNum(std)
                /\ std.n >= 0
                /\ Mul(Mul(Pow2(Rat(std.n, std.d)), Rat(std.rn, std.rd)), Int2Num(n - 1))
                       = SumOver(SquaredDeviation, 1, n)

\* C20: for running or walking (any letter case) the pace/speed group holds
\* only pace metrics, each speed s converted to 1000 / (s x 60) min/km, the best
\* pace being the minimum; for every other or missing sport only speed metrics
\* in km/h (s x 3.6) with the maximum; without speed samples the group is empty
C20_PaceOrSpeed ==
    PaceSpeedStepDone =>
        LET group == analysis.pace_speed_analysis
            n == SamplesPresent("speed")
        IN  /\ n = 0 => DOMAIN group = {}
            /\ (n > 0 /\ IsFootSport) =>
                  /\ DOMAIN group = {"avg_pace_min_per_km", "best_pace_min_per_km", "pace_variability"}
                  /\ \E i \in 1..n : group["best_pace_min_per_km"] = PaceOf(i)
                  /\ \A i \in 1..n : Le(group["best_pace_min_per_km"], PaceOf(i))
                  /\ IsMeanAndStd(group["avg_pace_min_per_km"], group["pace_variability"], PaceOf, n)
            /\ (n > 0 /\ ~IsFootSport) =>
                  /\ DOMAIN group = {"avg_speed_kmh", "max_speed_kmh", "speed_variability"}
                  /\ \E i \in 1..n : group["max_speed_kmh"] = KmhOf(i)
                  /\ \A i \in 1..n : Le(KmhOf(i), group["max_speed_kmh"])
                  /\ IsMeanAndStd(group["avg_speed_kmh"], group["speed_variability"], KmhOf, n)

\* reached: pace metrics for a session whose sport is written WALKING, the best
\* pace below the average pace
C20_Witness ==
    /\ PaceSpeedStepDone
    /\ "sport" \in DOMAIN session_info
    /\ session_info["sport"] = Str("WALKING")
    /\ SamplesPresent("speed") > 1
    /\ "best_pace_min_per_km" \in DOMAIN analysis.pace_speed_analysis
    /\ Lt(analysis.pace_speed_analysis["best_pace_min_per_km"],
          analysis.pace_speed_analysis["avg_pace_min_per_km"])

(***************************************************************************)
(* Direct calls of _analyze_basic_metrics and _format_duration             *)
(***************************************************************************)
MaxSeconds == 3665

\* a session key that is missing, zero, or one of the values given
Field(key, values) == {EmptyDict, key :> Zero} \cup {key :> Int2Num(v) : v \in values}

BasicSessions ==
    {e @@ m @@ d @@ a @@ c :
        e \in Field("total_elapsed_time", {3600, 3660}),
        m \in Field("total_timer_time", {3600}),
        d \in Field("total_distance", {45000}),
        a \in Field("total_ascent", {300}),
        c \in Field("total_calories", {850})}

\* durations in half seconds
DurationSeconds == {Rat(n, 2) : n \in 0..(2 * MaxSeconds)}

InitBasics ==
    /\ Idle
    /\ \/ \E s \in BasicSessions : args = [session |-> s]
       \/ \E n \in DurationSeconds : args = [seconds |-> n]
    /\ call = "none"
    /\ ret = None

\* analyzer._analyze_basic_metrics(session, None)
CallBasicMetrics ==
    /\ call = "none"
    /\ "session" \in DOMAIN args
    /\ call' = "ActivityAnalyzer._analyze_basic_metrics"
    /\ ret' = analyze_basic_metrics(args.session, None)
    /\ UNCHANGED <<activity_data, analysis, pc, exc, args>>

\* analyzer._format_duration(seconds)
CallFormatDuration ==
    /\ call = "none"
    /\ "seconds" \in DOMAIN args
    /\ call' = "ActivityAnalyzer._format_duration"
    /\ ret' = Str(format_duration(args.seconds))
    /\ UNCHANGED <<activity_data, analysis, pc, exc, args>>

NextBasics ==
    \/ CallBasicMetrics
    \/ CallFormatDuration

SpecBasics == InitBasics /\ [][NextBasics]_vars

(***************************************************************************)
(* Properties of the efficiency and basic metrics                          *)
(***************************************************************************)
EfficiencyStepDone == pc \in {"environmental_factors", "returned"}

\* the sample positions at which both the channel and the speed are present
CommonRows(column) ==
    IF HasColumn(column) /\ HasColumn("speed")
    THEN {i \in 1..Len(records[column]) : records[column][i] # NaN /\ records["speed"][i] # NaN}
    ELSE {}

\* the metric is the mean of speed / channel over the common positions: inf
\* when the channel is 0 at one of them (the speeds drawn are positive)
IsMeanRatio(metric, column) ==
    LET rows == CommonRows(column)
        Ratio(i) == IF i \in rows
                    THEN Rat(records["speed"][i].n * records[column][i].d,
                             records["speed"][i].d * records[column][i].n)
                    ELSE Zero
    IN  IF \E i \in rows : IsZero(records[column][i]) THEN metric = Inf
        ELSE /\ IsNum(metric)
             /\ Mul(metric, Int2Num(Cardinality(rows)))
                    = SumFrom([i \in 1..Len(records[column]) |-> Ratio(i)], 1, Len(records[column]))

\* C21: hr_efficiency and power_efficiency are the mean of the per-position
\* ratios speed / channel over exactly the positions where both channels are
\* present, and the metric is omitted when there is no such position
C21_EfficiencyMetrics ==
    EfficiencyStepDone =>
        LET group == analysis.efficiency_metrics
        IN  /\ DOMAIN group \subseteq {"hr_efficiency", "power_efficiency"}
            /\ "hr_efficiency" \in DOMAIN group <=> CommonRows("heart_rate") # {}
            /\ "power_efficiency" \in DOMAIN group <=> CommonRows("power") # {}
            /\ CommonRows("heart_rate") # {} => IsMeanRatio(group["hr_efficiency"], "heart_rate")
            /\ CommonRows("power") # {} => IsMeanRatio(group["power_efficiency"], "power")

\* reached: hr_efficiency over fewer positions than either channel has samples
C21_Witness ==
    /\ EfficiencyStepDone
    /\ "hr_efficiency" \in DOMAIN analysis.efficiency_metrics
    /\ IsNum(analysis.efficiency_metrics["hr_efficiency"])
    /\ Cardinality(CommonRows("heart_rate")) < SamplesPresent("heart_rate")
    /\ Cardinality(CommonRows("heart_rate")) < SamplesPresent("speed")

\* the session value under key, 0 when the key is missing
SessionValue(key) == IF key \in DOMAIN args.session THEN args.session[key] ELSE Zero

BasicMetricsReturned == call = "ActivityAnalyzer._analyze_basic_metrics"

\* C22: basic metrics guard every divisor: activity_factor is
\* moving_time / elapsed_time x 100 when elapsed_time > 0 and 0 otherwise,
\* calories_per_hour is calories / (moving_time / 3600) when moving_time > 0 and
\* 0 otherwise, elevation_gain_ratio is ascent / distance_km when distance > 0
\* and 0 otherwise, total_distance_km is total_distance / 1000, and nothing
\* raises when a session key is missing or zero
C22_BasicMetricsGuarded ==
    BasicMetricsReturned =>
        LET elapsed == SessionValue("total_elapsed_time")
            moving == SessionValue("total_timer_time")
            distance == SessionValue("total_distance")
        IN  /\ \A key \in DOMAIN ret : ~IsExc(ret[key])
            /\ IF Lt(Zero, elapsed)
               THEN Mul(ret.activity_factor, elapsed) = Mul(moving, Int2Num(100))
               ELSE ret.activity_factor = Zero
            /\ IF Lt(Zero, moving)
               THEN Mul(ret.calories_per_hour, moving)
                        = Mul(SessionValue("total_calories"), Int2Num(3600))
               ELSE ret.calories_per_hour = Zero
            /\ IF Lt(Zero, distance)
               THEN Mul(ret.elevation_gain_ratio, distance)
                        = Mul(SessionValue("total_ascent"), Int2Num(1000))
               ELSE ret.elevation_gain_ratio = Zero
            /\ Mul(ret.total_distance_km, Int2Num(1000)) = distance
            /\ elapsed = Int2Num(3660) /\ moving = Int2Num(3600) =>
                  /\ Lt(Rat(9836, 100), ret.activity_factor)
                  /\ Lt(ret.activity_factor, Rat(9837, 100))

\* reached: a session with a zero elapsed time and no distance, whose moving
\* time and calories give a positive calories_per_hour
C22_Witness ==
    /\ BasicMetricsReturned
    /\ "total_elapsed_time" \in DOMAIN args.session
    /\ args.session["total_elapsed_time"] = Zero
    /\ "total_distance" \notin DOMAIN args.session
    /\ "total_ascent" \in DOMAIN args.session
    /\ Lt(Zero, SessionValue("total_ascent"))
    /\ Lt(Zero, ret.calories_per_hour)
    /\ ret.activity_factor = Zero
    /\ ret.elevation_gain_ratio = Zero

FormatDurationReturned == call = "ActivityAnalyzer._format_duration"

Digit == <<"0", "1", "2", "3", "4", "5", "6", "7", "8", "9">>
TwoDigits(i) == Digit[(i \div 10) + 1] \o Digit[(i % 10) + 1]
RECURSIVE Decimal(_)
Decimal(i) == IF i < 10 THEN Digit[i + 1] ELSE Decimal(i \div 10) \o Digit[(i % 10) + 1]

\* C23: _format_duration maps s >= 0 seconds to "H:MM:SS" with H = s div 3600,
\* MM = (s mod 3600) div 60 and SS = s mod 60, MM and SS of two digits and below
\* 60, so that H * 3600 + MM * 60 + SS is s for whole seconds; 0 gives
\* "0:00:00", 3665 gives "1:01:05" and 3600 gives "1:00:00"
C23_FormatDuration ==
    FormatDurationReturned =>
        LET whole == args.seconds.n \div args.seconds.d
            H == whole \div 3600
            MM == (whole % 3600) \div 60
            SS == whole % 60
        IN  /\ ret = Str(Decimal(H) \o ":" \o TwoDigits(MM) \o ":" \o TwoDigits(SS))
            /\ MM < 60 /\ SS < 60
            /\ Len(TwoDigits(MM)) = 2 /\ Len(TwoDigits(SS)) = 2
            /\ args.seconds.d = 1 => H * 3600 + MM * 60 + SS = args.seconds.n
            /\ args.seconds = Zero => ret = Str("0:00:00")
            /\ args.seconds = Int2Num(3665) => ret = Str("1:01:05")
            /\ args.seconds = Int2Num(3600) => ret = Str("1:00:00")

\* reached: 3665 seconds formatted as "1:01:05"
C23_Witness ==
    /\ FormatDurationReturned
    /\ args.seconds = Int2Num(3665)
    /\ ret = Str("1:01:05")

(***************************************************************************)
(* FitAnalysisAgent.analyze_fit_file: the analysis, the athlete-info        *)
(* enhancement of its report, and the compiled report                       *)
(***************************************************************************)
AthleteAge == 60
AthleteWeight == 70
AthleteFtp == 3

\* FitAnalysisAgent._enhance_with_athlete_info; the report dict is changed in
\* place.  numpy_avg tells whether avg_power is numpy's mean of the samples
\* (x / 0 is inf) or the session's Python number (x / 0 raises)
enhance_with_athlete_info(report, athlete_info, numpy_avg) ==
    LET with_age ==
            IF "age" \in DOMAIN athlete_info
            THEN Put(report, "athlete_specific",
                     [estimated_max_hr |-> Sub(Int2Num(220), athlete_info["age"]),
                      age |-> athlete_info["age"]])
            ELSE report
        with_weight ==
            IF "weight" \in DOMAIN athlete_info
            THEN LET athlete_specific ==
                         Put(Get(with_age, "athlete_specific", EmptyDict),
                             "weight", athlete_info["weight"])
                     avg_power == IF "power_analysis" \in DOMAIN with_age
                                  THEN Get(with_age["power_analysis"], "avg_power", None)
                                  ELSE None
                     power_to_weight == IF numpy_avg
                                        THEN NpTrueDiv(avg_power, athlete_info["weight"])
                                        ELSE TrueDiv(avg_power, athlete_info["weight"])
                 IN  IF ~Truthy(avg_power)
                     THEN Put(with_age, "athlete_specific", athlete_specific)
                     ELSE IF power_to_weight = ZeroDivisionError THEN ZeroDivisionError
                     ELSE Put(with_age, "athlete_specific",
                              Put(athlete_specific, "power_to_weight_ratio", power_to_weight))
            ELSE with_age
    IN  IF with_weight = ZeroDivisionError \/ "ftp" \notin DOMAIN athlete_info THEN with_weight
        ELSE LET with_ftp == Put(with_weight, "athlete_specific",
                                 Put(Get(with_weight, "athlete_specific", EmptyDict),
                                     "ftp", athlete_info["ftp"]))
                 power_data == Get(with_ftp, "raw_power_data", None)
             IN  IF "power_analysis" \in DOMAIN with_ftp /\ power_data # None
                 THEN Put(with_ftp, "power_analysis",
                          Put(with_ftp["power_analysis"], "power_zones",
                              calculate_power_zones(power_data, athlete_info["ftp"].n)))
                 ELSE with_ftp

\* `if athlete_info:` (line 206): None and the empty dict are skipped
HasAthleteInfo == args.athlete_info # None /\ DOMAIN args.athlete_info # {}

\* lines 206-207: the enhancement of the report analyze_activity returned
EnhanceWithAthleteInfo ==
    /\ pc = "returned"
    /\ HasAthleteInfo
    /\ LET enhanced == enhance_with_athlete_info(analysis, args.athlete_info,
                                                  "avg_power" \notin DOMAIN session_info)
       IN  IF enhanced = ZeroDivisionError
           THEN /\ pc' = "raised"
                /\ exc' = "ZeroDivisionError"
                /\ UNCHANGED analysis
           ELSE /\ pc' = "enhanced"
                /\ analysis' = enhanced
                /\ UNCHANGED exc
    /\ UNCHANGED <<activity_data, args, call, ret>>

\* lines 210-235: the AI analysis, whose failure is caught and reported inside
\* the report, and the report returned
CompileReport ==
    /\ \/ pc = "enhanced"
       \/ pc = "returned" /\ ~HasAthleteInfo
    /\ \E failed \in BOOLEAN :
          ret' = [detailed_analysis |-> analysis,
                  ai_analysis |-> IF failed THEN [error |-> TRUE] ELSE [error |-> FALSE],
                  has_heart_rate |-> HasColumn("heart_rate"),
                  has_power |-> HasColumn("power")]
    /\ pc' = "reported"
    /\ call' = "FitAnalysisAgent.analyze_fit_file"
    /\ UNCHANGED <<activity_data, analysis, exc, args>>

\* the athlete infos: each of age, weight and ftp missing or given; the weights
\* include the invalid divisors 0 and a negative one
AthleteInfos ==
    {None} \cup
    {a @@ w @@ f :
        a \in {EmptyDict, "age" :> Int2Num(AthleteAge)},
        w \in {EmptyDict} \cup {"weight" :> Int2Num(v) : v \in {AthleteWeight, 0, -AthleteWeight}},
        f \in {EmptyDict, "ftp" :> Int2Num(AthleteFtp)}}

AgentSessions == {s \in Sessions : s = EmptyDict \/ "max_power" \in DOMAIN s}

AgentDataFrames ==
    {DataFrame(h, p, <<>>) :
        h \in {<<>>, Column([i \in 1..MaxHrSamples |-> Int2Num(112 + 2 * i)], MaxRows, 0)},
        p \in {<<>>} \cup {Column(Series(StepSeries(k, 0, 2, 2)), MaxRows, 0) : k \in {1, MaxRows}}}

InitAgent ==
    /\ \E s \in AgentSessions, df \in AgentDataFrames :
          activity_data = [session_info |-> s, records_df |-> df]
    /\ analysis = <<>>
    /\ pc = "ready"
    /\ exc = "none"
    /\ \E info \in AthleteInfos : args = [athlete_info |-> info]
    /\ call = "none"
    /\ ret = None

NextAgent ==
    \/ Next
    \/ EnhanceWithAthleteInfo
    \/ CompileReport

SpecAgent == InitAgent /\ [][NextAgent]_vars

(***************************************************************************)
(* Properties of the athlete-info enhancement                               *)
(***************************************************************************)
Reported == pc = "reported"

Supplied(key) == HasAthleteInfo /\ key \in DOMAIN args.athlete_info

\* C24: when athlete info supplies an FTP and the activity has power data, the
\* power zones of the enhanced report are those computed against the supplied
\* FTP; without an FTP they are the zones computed against the default 250 W
C24_FtpRecomputesPowerZones ==
    Reported /\ SamplesPresent("power") > 0 =>
        LET ftp == IF Supplied("ftp") THEN args.athlete_info["ftp"].n ELSE DefaultFtp
        IN  ret.detailed_analysis["power_analysis"]["power_zones"]
                = calculate_power_zones(dropna(records["power"]), ftp)

\* C25: the heart-rate-zone ceiling is 190 bpm by default and 220 - age when an
\* age is supplied: the max HR recorded is 220 - age and the reported HR zones
\* are computed against that ceiling
C25_AgeSetsHrCeiling ==
    Reported /\ SamplesPresent("heart_rate") > 0 =>
        LET max_hr == IF Supplied("age") THEN 220 - args.athlete_info["age"].n
                      ELSE DefaultMaxHr
        IN  /\ Supplied("age") =>
                  ret.detailed_analysis["athlete_specific"]["estimated_max_hr"] = Int2Num(max_hr)
            /\ ret.detailed_analysis["heart_rate_analysis"]["hr_zones"]
                  = calculate_hr_zones(dropna(records["heart_rate"]), max_hr)

\* C26: given a weight and a power result, the enhancement sets
\* power_to_weight_ratio = avg_power / weight; a weight <= 0 is guarded and
\* never raises; the fields recorded from age are kept when weight or FTP are
\* added
C26_WeightGuarded ==
    [][pc = "returned" /\ Supplied("weight") =>
          /\ pc' = "enhanced"
          /\ LET weight == args.athlete_info["weight"]
                 avg_power == Get(analysis.power_analysis, "avg_power", None)
                 athlete_specific == analysis'["athlete_specific"]
             IN  /\ athlete_specific["weight"] = weight
                 /\ Truthy(avg_power) /\ Lt(Zero, weight) =>
                       Mul(athlete_specific["power_to_weight_ratio"], weight) = avg_power
                 /\ ~Lt(Zero, weight) =>
                       "power_to_weight_ratio" \notin DOMAIN athlete_specific
                 /\ Supplied("age") =>
                       /\ athlete_specific["age"] = args.athlete_info["age"]
                       /\ athlete_specific["estimated_max_hr"]
                             = Sub(Int2Num(220), args.athlete_info["age"])]_vars

\* C27: a report produced by analyze_activity is not mutated after
\* construction: no later step of analyze_fit_file changes the report object
\* analyze_activity returned, and analyze_activity leaves its input session
\* summary and sample table unchanged
C27_ReportNotMutated ==
    [][/\ pc \in {"returned", "enhanced"} => analysis' = analysis
       /\ activity_data' = activity_data]_vars

(***************************************************************************)
(* Two calls of analyze_activity interleaved on one ActivityAnalyzer.  The  *)
(* instance holds only its logger (lines 18-19); each call has its own      *)
(* frame (activity_data, the reference to its report, its position) and the *)
(* report dicts live in a heap of objects.                                  *)
(***************************************************************************)
\* faulty variant: the report dict is one object kept on the instance
new_dict_shared(heap) == 1

\* the dict literal of lines 31-40 is a new object on every call
new_dict(heap) == Len(heap) + 1

store(heap, ref, value) ==
    IF ref > Len(heap) THEN Append(heap, value) ELSE [heap EXCEPT ![ref] = value]

Done == {"returned", "raised"}

\* one step of analyze_activity in a call frame, on the heap of report dicts
step(frame, heap) ==
    LET session == frame.activity_data.session_info
        records_df == frame.activity_data.records_df
        has(column) == records_df # None /\ column \in DOMAIN records_df
        report == heap[frame.report]
        goto(next, key, value) ==
            [frame |-> [frame EXCEPT !.pc = next],
             heap |-> [heap EXCEPT ![frame.report] = [@ EXCEPT ![key] = value]]]
        skip(next) == [frame |-> [frame EXCEPT !.pc = next], heap |-> heap]
        raise(e) == [frame |-> [frame EXCEPT !.pc = "raised", !.exc = e], heap |-> heap]
    IN  CASE frame.pc = "ready" ->
                LET ref == new_dict(heap)
                IN  [frame |-> [frame EXCEPT !.pc = "basic_metrics", !.report = ref],
                     heap |-> store(heap, ref,
                         [basic_metrics |-> EmptyDict, heart_rate_analysis |-> EmptyDict,
                          power_analysis |-> EmptyDict, pace_speed_analysis |-> EmptyDict,
                          training_zones |-> EmptyDict, performance_insights |-> EmptyDict,
                          efficiency_metrics |-> EmptyDict, environmental_factors |-> EmptyDict])]
          [] frame.pc = "basic_metrics" ->
                goto("heart_rate_analysis", "basic_metrics",
                     analyze_basic_metrics(session, records_df))
          [] frame.pc = "heart_rate_analysis" ->
                IF has("heart_rate")
                THEN goto("power_analysis", "heart_rate_analysis",
                          analyze_heart_rate(records_df, session))
                ELSE skip("power_analysis")
          [] frame.pc = "power_analysis" ->
                IF has("power")
                THEN LET result == analyze_power(records_df, session)
                     IN  IF result \in {TypeError, ZeroDivisionError} THEN raise(result.e)
                         ELSE goto("pace_speed_analysis", "power_analysis", result)
                ELSE skip("pace_speed_analysis")
          [] frame.pc = "pace_speed_analysis" ->
                IF has("speed")
                THEN goto("training_zones", "pace_speed_analysis",
                          analyze_pace_speed(records_df, session))
                ELSE skip("training_zones")
          [] frame.pc = "training_zones" ->
                goto("performance_insights", "training_zones",
                     analyze_training_zones(records_df, session))
          [] frame.pc = "performance_insights" ->
                LET result == generate_performance_insights(report, session, records_df)
                IN  IF result = TypeError THEN raise(result.e)
                    ELSE goto("efficiency_metrics", "performance_insights", result)
          [] frame.pc = "efficiency_metrics" ->
                goto("environmental_factors", "efficiency_metrics",
                     calculate_efficiency_metrics(records_df, session))
          [] frame.pc = "environmental_factors" ->
                goto("returned", "environmental_factors",
                     analyze_environmental_factors(records_df, session))

\* the frame of a call that has not started
Frame(data) == [activity_data |-> data, report |-> 0, pc |-> "ready", exc |-> "none"]

Frames == args.frames

\* a step of call i
Advance(i) ==
    /\ call = "ActivityAnalyzer.analyze_activity"
    /\ Frames[i].pc \notin Done
    /\ LET result == step(Frames[i], analysis)
       IN  /\ args' = [frames |-> [Frames EXCEPT ![i] = result.frame]]
           /\ analysis' = result.heap
    /\ UNCHANGED <<activity_data, pc, exc, call, ret>>

PairSpeed == Column(<<Rat(5, 2), Int2Num(3), Rat(7, 2)>>, MaxRows, 0)

PairActivities ==
    {[session_info |-> s, records_df |-> df] :
        s \in AgentSessions,
        df \in {None} \cup {DataFrame(c[1], c[2], c[3]) :
                   c \in {<<Column([i \in 1..MaxHrSamples |-> Int2Num(112 + 2 * i)], MaxRows, 0),
                            <<>>, <<>> >>,
                          << <<>>, Column(Series(StepSeries(MaxRows, 0, 2, 2)), MaxRows, 0),
                            PairSpeed>>,
                          << <<>>, Column(Series(StepSeries(1, 0, 2, 2)), MaxRows, 0), <<>> >>,
                          <<Column(Series(StepSeries(MaxHrSamples, 0, 120, 120)), MaxRows, 2),
                            Column(Series(StepSeries(MaxRows, 0, 0, 0)), MaxRows, 0),
                            PairSpeed>>}}}

InitPair ==
    /\ activity_data = [session_info |-> <<>>, records_df |-> None]
    /\ analysis = <<>>
    /\ pc = "idle"
    /\ exc = "none"
    /\ \E first \in PairActivities, second \in PairActivities :
          args = [frames |-> <<Frame(first), Frame(second)>>]
    /\ call = "ActivityAnalyzer.analyze_activity"
    /\ ret = None

NextPair ==
    \/ Advance(1)
    \/ Advance(2)

SpecPair == InitPair /\ [][NextPair]_vars

(***************************************************************************)
(* Properties of interleaved calls                                         *)
(***************************************************************************)
RECURSIVE run(_)
\* a call run to its end
run(state) ==
    IF state.frame.pc \in Done THEN state
    ELSE CHOOSE final \in {run(next) : next \in {step(state.frame, state.heap)}} : TRUE

\* the call on each input run alone, on an analyzer that has done nothing else
Alone == [data \in PairActivities |-> run([frame |-> Frame(data), heap |-> <<>>])]
alone(data) == Alone[data]

\* C28: calls of analyze_activity are independent: when two analyses run
\* interleaved on one ActivityAnalyzer, each returns exactly the report it
\* returns when run alone (and raises exactly when it raises alone), so a
\* result is a function of the call's own input only
C28_CallsIndependent ==
    \A i \in 1..2 :
        LET frame == Frames[i]
            single == alone(frame.activity_data)
        IN  /\ frame.pc = "returned" =>
                  /\ single.frame.pc = "returned"
                  /\ analysis[frame.report] = single.heap[single.frame.report]
            /\ frame.pc = "raised" =>
                  /\ single.frame.pc = "raised"
                  /\ single.frame.exc = frame.exc

\* reached: the second call began first and is still computing its insights
\* when the first call, over a different input, has returned its report
C28_Witness ==
    /\ Frames[1].pc = "returned"
    /\ Frames[2].pc = "performance_insights"
    /\ Frames[2].report < Frames[1].report
    /\ Frames[1].activity_data # Frames[2].activity_data
    /\ analysis[Frames[1].report].heart_rate_analysis # EmptyDict
    /\ analysis[Frames[2].report].power_analysis # EmptyDict

(***************************************************************************)
(* FitAnalysisAgent.analyze_multiple_activities                             *)
(***************************************************************************)
MaxFiles == 3

AttributeError == [t |-> "exc", e |-> "AttributeError"]

\* FitAnalysisAgent._format_data_for_llm: the text starts with the section
\* title and goes through data.items() (line 352), which a list does not have;
\* the lines written per key are not modelled
format_data_for_llm(data, section_title) ==
    IF "t" \in DOMAIN data /\ data.t = "list" THEN AttributeError
    ELSE Str("=== " \o section_title \o " ===")

FilePaths == {"a.fit", "b.fit", "c.fit"}

\* the batch: the paths in call order, the files whose analysis succeeds, and
\* whether the comparative chain's run fails
InitBatch ==
    /\ activity_data = [session_info |-> <<>>, records_df |-> None]
    /\ analysis = <<>>
    /\ pc = "loop"
    /\ exc = "none"
    /\ \E paths \in SeqsUpTo(FilePaths, MaxFiles), good \in SUBSET FilePaths, fails \in BOOLEAN :
          args = [file_paths |-> paths, analyzable |-> good, chain_fails |-> fails,
                  index |-> 1, activities_data |-> <<>>, chain_runs |-> 0]
    /\ call = "FitAnalysisAgent.analyze_multiple_activities"
    /\ ret = None

\* lines 373-383: one iteration of the loop; a file whose analysis raises is
\* logged and skipped
AnalyzeNextFile ==
    /\ pc = "loop"
    /\ args.index <= Len(args.file_paths)
    /\ LET file_path == args.file_paths[args.index]
       IN  args' = [args EXCEPT
                       !.index = @ + 1,
                       !.activities_data =
                           IF file_path \in args.analyzable
                           THEN Append(@, [file_path |-> file_path])
                           ELSE @]
    /\ UNCHANGED <<activity_data, analysis, pc, exc, call, ret>>

\* lines 385-386, after the loop
RaiseIfNoActivities ==
    /\ pc = "loop"
    /\ args.index > Len(args.file_paths)
    /\ IF args.activities_data = <<>>
       THEN pc' = "raised" /\ exc' = "ValueError"
       ELSE pc' = "compare" /\ UNCHANGED exc
    /\ UNCHANGED <<activity_data, analysis, args, call, ret>>

\* lines 389-406: the activities are formatted outside the try block, then the
\* comparative chain runs and its failure is logged and re-raised
CompareActivities ==
    /\ pc = "compare"
    /\ LET activities_text == format_data_for_llm(List(args.activities_data),
                                                   "Activities Comparison")
       IN  IF IsExc(activities_text)
           THEN /\ pc' = "raised"
                /\ exc' = activities_text.e
                /\ UNCHANGED <<args, ret>>
           ELSE /\ args' = [args EXCEPT !.chain_runs = @ + 1]
                /\ IF args.chain_fails
                   THEN pc' = "raised" /\ exc' = "ChainError" /\ UNCHANGED ret
                   ELSE /\ pc' = "returned"
                        /\ ret' = [total_activities |-> Len(args.activities_data),
                                   activities_analyzed |->
                                       [i \in 1..Len(args.activities_data) |->
                                           args.activities_data[i].file_path],
                                   individual_summaries |-> args.activities_data]
                        /\ UNCHANGED exc
    /\ UNCHANGED <<activity_data, analysis, call>>

NextBatch ==
    \/ AnalyzeNextFile
    \/ RaiseIfNoActivities
    \/ CompareActivities

SpecBatch == InitBatch /\ [][NextBatch]_vars

(***************************************************************************)
(* Properties of the batch                                                 *)
(***************************************************************************)
IsAnalyzable(file_path) == file_path \in args.analyzable

\* the analyzable files among the first n paths, in input order
Analyzed(n) == SelectSeq(SubSeq(args.file_paths, 1, n), IsAnalyzable)

\* C29: analyze_multiple_activities processes the paths in input order and
\* skips a file whose analysis raises; it ends in one of three ways: with
\* ValueError before any comparative call when no file succeeded, with the
\* comparative call's failure re-raised, or with a result whose total_activities
\* is the number of files analyzed and whose activities_analyzed lists exactly
\* those paths in input order
C29_BatchOutcome ==
    /\ pc = "loop" =>
          [i \in 1..Len(args.activities_data) |-> args.activities_data[i].file_path]
              = Analyzed(args.index - 1)
    /\ pc \in {"returned", "raised"} =>
          LET succeeded == Analyzed(Len(args.file_paths))
          IN  IF succeeded = <<>>
              THEN pc = "raised" /\ exc = "ValueError" /\ args.chain_runs = 0
              ELSE IF args.chain_fails
              THEN pc = "raised" /\ exc = "ChainError"
              ELSE /\ pc = "returned"
                   /\ ret.total_activities = Len(succeeded)
                   /\ ret.activities_analyzed = succeeded

(***************************************************************************)
(* The ratings _assess_workout_quality can return                           *)
(***************************************************************************)
\* the hr_variability the rating reads: 0 when the report has no heart-rate
\* group or the group has no data
RatedVariability ==
    IF HrPointAttempted /\ "hr_variability" \in DOMAIN args.analysis["heart_rate_analysis"]
    THEN args.analysis["heart_rate_analysis"]["hr_variability"]
    ELSE Zero

\* C30: _assess_workout_quality returns 'Excellent workout quality' exactly
\* when hr_variability < 10 (0 without heart-rate data) and elapsed_time > 0 with
\* moving_time / elapsed_time > 0.8 both hold, 'Room for improvement in workout
\* quality' in every other case, and never 'Good workout quality'
C30_ExcellentOrRoom ==
    call = "ActivityAnalyzer._assess_workout_quality" =>
        /\ ret # Str("Good workout quality")
        /\ ret = Str("Excellent workout quality")
              <=> (LessThan(RatedVariability, Int2Num(10)) /\ TimePoint)
        /\ ret # Str("Excellent workout quality")
              => ret = Str("Room for improvement in workout quality")

\* reached: a steady heart rate in a workout that was moving for half of its
\* time: one point of two, rated 'Room for improvement'
C30_Witness ==
    /\ call = "ActivityAnalyzer._assess_workout_quality"
    /\ HrPointAttempted
    /\ "hr_variability" \in DOMAIN args.analysis["heart_rate_analysis"]
    /\ LessThan(RatedVariability, Int2Num(10))
    /\ "total_elapsed_time" \in DOMAIN args.session
    /\ ~TimePoint
    /\ ret = Str("Room for improvement in workout quality")

====
